---- MODULE Spec2Model ----
(***************************************************************************)
(* BidCalendar AI: the deadline deriver and calendar serializer            *)
(* (utils/calendar.ts), the zustand store (store/useAppStore.ts) and the   *)
(* handlers of App, DataEditor, SettingsModal and ManualEntryForm that     *)
(* drive them.                                                             *)
(*                                                                         *)
(* An instant is kept exact: a JavaScript time value t (milliseconds since *)
(* the epoch) is the pair d = t div 86400000, ms = t mod 86400000, so that *)
(* the whole range of Date (+-8.64e15 ms) stays inside TLC's integers.     *)
(***************************************************************************)
EXTENDS Integers, Sequences, FiniteSets, TLC

VARIABLES
    hostZone,          \* the time zone of the browser (fixed during a session)
    status,            \* store: ProcessingStatus
    data,              \* store: FullProjectData | null
    error,             \* store: AppError | null
    leadTimeSettings,  \* store: LeadTimeSettings (persisted)
    auditLog,          \* store: the audit log (its length and its last entry)
    job,               \* the extraction started by handleFileSelect, if any
    nOps,              \* number of user interactions handled so far
    arg,               \* pure-function harness: the arguments of the call
    ret                \* pure-function harness: what the call returned

vars == <<hostZone, status, data, error, leadTimeSettings, auditLog, job, nOps, arg, ret>>

storeVars == <<status, data, error, leadTimeSettings, auditLog, job, nOps>>

callVars == <<arg, ret>>

(***************************************************************************)
(* JavaScript values                                                       *)
(***************************************************************************)
NULL == [kind |-> "null"]

UNDEFINED == [kind |-> "undefined"]

\* A string that is not a date-time literal, as the sequence of its pieces: a
\* piece is a run of ordinary characters, LF (one line feed) or BSN (the two
\* characters backslash, n).  "" is the empty sequence.
LF == "<LF>"

BSN == "<BACKSLASH-n>"

Text(pieces) == [kind |-> "text", v |-> pieces]

Str(s) == Text(IF s = "" THEN <<>> ELSE <<s>>)

\* "YYYY-MM-DDTHH:mm:ss.sssZ", what toISOString produces.
IsoStr(Y, M, D, h, mi, s, ms) ==
    [kind |-> "iso", Y |-> Y, M |-> M, D |-> D, h |-> h, mi |-> mi, s |-> s, ms |-> ms]

\* "YYYY-MM-DDTHH:mm", the value of an <input type="datetime-local">: no zone.
LocalStr(Y, M, D, h, mi) ==
    [kind |-> "local", Y |-> Y, M |-> M, D |-> D, h |-> h, mi |-> mi]

\* What a throw statement leaves instead of a value.
Throw(e) == [kind |-> "throw", err |-> e]

IsThrow(v) == "kind" \in DOMAIN v /\ v.kind = "throw"

\* ToBoolean of a string-or-null field: !x is the negation.
Truthy(v) ==
    /\ v.kind \notin {"null", "undefined"}
    /\ (v.kind = "text" => v.v # <<>>)

\* a || b
OrElse(a, b) == IF Truthy(a) THEN a ELSE b

(***************************************************************************)
(* Date: time values, the proleptic Gregorian calendar, time zones         *)
(***************************************************************************)
ONE_DAY == 24 * 60 * 60 * 1000

ONE_HOUR == 60 * 60 * 1000

\* Date holds time values of at most 8.64e15 ms = 100,000,000 days either side.
MaxDay == 10000 * 10000

NaN == [kind |-> "NaN"]

Tv(d, ms) == [kind |-> "tv", d |-> d, ms |-> ms]

\* The time value of day dd, millisecond mm of the day, or NaN out of range.
ClipDay(dd, mm) ==
    IF dd < -MaxDay \/ dd > MaxDay \/ (dd = MaxDay /\ mm > 0)
    THEN NaN
    ELSE Tv(dd, mm)

\* TimeClip of the time value d * ONE_DAY + ms (ms may be any integer).
TimeClip(d, ms) == ClipDay(d + (ms \div ONE_DAY), ms % ONE_DAY)

\* t + delta milliseconds, |delta| below 2^30 (new Date(t.getTime() + delta)).
AddMs(t, delta) == IF t.kind = "NaN" THEN NaN ELSE TimeClip(t.d, t.ms + delta)

\* t - n * ONE_DAY (new Date(t.getTime() - n * ONE_DAY)).
SubDays(t, n) == IF t.kind = "NaN" THEN NaN ELSE TimeClip(t.d - n, t.ms)

\* a.getTime() < b.getTime(), both valid.
TvLess(a, b) == a.d < b.d \/ (a.d = b.d /\ a.ms < b.ms)

\* Day number of day D of shifted month mp (0 = March) of shifted year y.
DaysFromShifted(y, mp, D) ==
    (y \div 400) * 146097
      + (y % 400) * 365 + ((y % 400) \div 4) - ((y % 400) \div 100)
      + ((153 * mp + 2) \div 5) + D - 1
      - 719468

\* Day number of the civil date Y-M-D (days since 1970-01-01).
DaysFromCivil(Y, M, D) ==
    DaysFromShifted(IF M <= 2 THEN Y - 1 ELSE Y, IF M > 2 THEN M - 3 ELSE M + 9, D)

\* The civil date of a day, from its era, year of era, day of year and
\* shifted month.
CivilFromMp(era, yoe, doy, mp) ==
    [Y |-> yoe + era * 400 + (IF mp >= 10 THEN 1 ELSE 0),
     M |-> IF mp < 10 THEN mp + 3 ELSE mp - 9,
     D |-> doy - ((153 * mp + 2) \div 5) + 1]

CivilFromDoy(era, yoe, doy) == CivilFromMp(era, yoe, doy, (5 * doy + 2) \div 153)

CivilFromYoe(era, doe, yoe) ==
    CivilFromDoy(era, yoe, doe - (365 * yoe + (yoe \div 4) - (yoe \div 100)))

CivilFromDoe(era, doe) ==
    CivilFromYoe(era, doe,
                 (doe - (doe \div 1460) + (doe \div 36524) - (doe \div 146096)) \div 365)

\* The civil date of day number z.
CivilFromDays(z) == CivilFromDoe((z + 719468) \div 146097, (z + 719468) % 146097)

\* The ISO string of civil date c, millisecond ms of the day.
IsoFromCivil(c, ms) ==
    IsoStr(c.Y, c.M, c.D,
           ms \div ONE_HOUR, (ms % ONE_HOUR) \div 60000, (ms % 60000) \div 1000, ms % 1000)

\* Date.prototype.toISOString: throws RangeError on an invalid Date.
toISOString(t) ==
    IF t.kind = "NaN" THEN Throw("RangeError") ELSE IsoFromCivil(CivilFromDays(t.d), t.ms)

\* A host time zone: local = UTC + before (ms) up to the instant `at`, and
\* UTC + after from `at` on (before = after: no transition).
Zone(before, after, at) == [before |-> before, after |-> after, at |-> at]

\* The (d, ms) pair delta milliseconds after t; it may lie outside the range
\* of Date.
ShiftMs(t, delta) ==
    [d |-> t.d + ((t.ms + delta) \div ONE_DAY), ms |-> (t.ms + delta) % ONE_DAY]

\* LocalTime(t) of the language specification.
LocalTime(z, t) == ShiftMs(t, IF TvLess(t, z.at) THEN z.before ELSE z.after)

\* Of the two readings of a local time, the one the language specification
\* takes: a local time that is repeated or skipped at the transition is read
\* with the offset in force before the transition.
PickUTC(z, early, late) ==
    IF TvLess(early, z.at) THEN early
    ELSE IF ~TvLess(late, z.at) THEN late
    ELSE early

\* UTC(t_local) of the language specification.
UTC(z, tl) == PickUTC(z, ShiftMs(tl, 0 - z.before), ShiftMs(tl, 0 - z.after))

ClipTv(u) == TimeClip(u.d, u.ms)

\* new Date(dateStr) for a truthy string.
DateParse(z, v) ==
    CASE v.kind = "iso" ->
            TimeClip(DaysFromCivil(v.Y, v.M, v.D),
                     v.h * ONE_HOUR + v.mi * 60000 + v.s * 1000 + v.ms)
      [] v.kind = "local" ->
            ClipTv(UTC(z, [d  |-> DaysFromCivil(v.Y, v.M, v.D),
                           ms |-> v.h * ONE_HOUR + v.mi * 60000]))
      [] OTHER -> NaN

\* d.setHours(d.getHours() + 1) on a valid Date: the hour field of the local
\* time is raised by one and the result is read back as a local time.
setHoursPlusOne(z, t) == ClipTv(UTC(z, ShiftMs(LocalTime(z, t), ONE_HOUR)))

(***************************************************************************)
(* Records of the application                                              *)
(***************************************************************************)
Bool(b) == [kind |-> "bool", v |-> b]

Num(n) == [kind |-> "num", n |-> n]

AnchorFields == {"bidDueDate", "rfiDueDate", "siteVisitDate", "rsvpDeadline"}

InternalFields ==
    {"bondRequestDeadline", "finalizeBidPackageDeadline", "finalizeRfiDeadline",
     "subcontractorBidDeadline", "scopeReviewDeadline", "addendumCheckDeadline"}

TextFields ==
    {"projectName", "agencyName", "projectAddress", "projectDescription",
     "bidBondRequirement", "comments"}

\* The keys of FullProjectData; an absent key reads as undefined.
DataFields == TextFields \cup {"isSiteVisitMandatory"} \cup AnchorFields \cup InternalFields

LeadTimeKeys ==
    {"bondRequestDays", "finalizeBidDays", "finalizeRfiDays",
     "subcontractorBidDays", "scopeReviewDays", "addendumCheckDays"}

DEFAULT_LEAD_TIMES ==
    [bondRequestDays |-> 5, finalizeBidDays |-> 1, finalizeRfiDays |-> 1,
     subcontractorBidDays |-> 7, scopeReviewDays |-> 10, addendumCheckDays |-> 3]

(***************************************************************************)
(* Deadline deriver (utils/calendar.ts)                                    *)
(***************************************************************************)
\* getDeadlineBefore adding the days instead of subtracting them.
getDeadlineBefore_Adds(dateStr, daysBefore) ==
    IF ~Truthy(dateStr) THEN NULL
    ELSE LET d == DateParse(hostZone, dateStr)
         IN  IF d.kind = "NaN" THEN NULL
             ELSE toISOString(SubDays(d, -daysBefore))

\* getDeadlineBefore without the isNaN guard.
getDeadlineBefore_NoNaNGuard(dateStr, daysBefore) ==
    IF ~Truthy(dateStr) THEN NULL
    ELSE toISOString(SubDays(DateParse(hostZone, dateStr), daysBefore))

getDeadlineBefore(dateStr, daysBefore) ==
    IF ~Truthy(dateStr) THEN NULL
    ELSE LET d == DateParse(hostZone, dateStr)
         IN  IF d.kind = "NaN" THEN NULL
             ELSE toISOString(SubDays(d, daysBefore))

\* A parameter with a default value: the default stands in for undefined.
DefaultTo(x, dflt) == IF x = UNDEFINED THEN dflt ELSE x.n

getBondDeadline(bidDateStr, daysBefore) ==
    getDeadlineBefore(bidDateStr, DefaultTo(daysBefore, 5))

getFinalizeBidDeadline(bidDateStr, daysBefore) ==
    getDeadlineBefore(bidDateStr, DefaultTo(daysBefore, 1))

getFinalizeRfiDeadline(rfiDateStr, daysBefore) ==
    getDeadlineBefore(rfiDateStr, DefaultTo(daysBefore, 1))

getSubcontractorBidDeadline(bidDateStr, daysBefore) ==
    getDeadlineBefore(bidDateStr, DefaultTo(daysBefore, 7))

getScopeReviewDeadline(bidDateStr, daysBefore) ==
    getDeadlineBefore(bidDateStr, DefaultTo(daysBefore, 10))

getAddendumCheckDeadline(bidDateStr, daysBefore) ==
    getDeadlineBefore(bidDateStr, DefaultTo(daysBefore, 3))

\* calculateInternalEvents deriving the bond-request deadline from the stored
\* bond-request deadline when there is one (a second run moves it again).
calculateInternalEvents_FromDerived(rec, settings) ==
    LET st  == IF settings = UNDEFINED THEN DEFAULT_LEAD_TIMES ELSE settings
        bid == OrElse(rec.bidDueDate, NULL)
        rfi == OrElse(rec.rfiDueDate, NULL)
        out == [rec EXCEPT
                  !.bidBondRequirement         = OrElse(rec.bidBondRequirement, NULL),
                  !.bondRequestDeadline        = getBondDeadline(OrElse(rec.bondRequestDeadline, bid), Num(st.bondRequestDays)),
                  !.finalizeBidPackageDeadline = getFinalizeBidDeadline(bid, Num(st.finalizeBidDays)),
                  !.finalizeRfiDeadline        = getFinalizeRfiDeadline(rfi, Num(st.finalizeRfiDays)),
                  !.subcontractorBidDeadline   = getSubcontractorBidDeadline(bid, Num(st.subcontractorBidDays)),
                  !.scopeReviewDeadline        = getScopeReviewDeadline(bid, Num(st.scopeReviewDays)),
                  !.addendumCheckDeadline      = getAddendumCheckDeadline(bid, Num(st.addendumCheckDays))]
    IN  IF \E f \in InternalFields : IsThrow(out[f])
        THEN Throw("RangeError")
        ELSE out

\* calculateInternalEvents without the "|| null" on bidBondRequirement.
calculateInternalEvents_KeepsBond(rec, settings) ==
    LET st  == IF settings = UNDEFINED THEN DEFAULT_LEAD_TIMES ELSE settings
        bid == OrElse(rec.bidDueDate, NULL)
        rfi == OrElse(rec.rfiDueDate, NULL)
        out == [rec EXCEPT
                  !.bondRequestDeadline        = getBondDeadline(bid, Num(st.bondRequestDays)),
                  !.finalizeBidPackageDeadline = getFinalizeBidDeadline(bid, Num(st.finalizeBidDays)),
                  !.finalizeRfiDeadline        = getFinalizeRfiDeadline(rfi, Num(st.finalizeRfiDays)),
                  !.subcontractorBidDeadline   = getSubcontractorBidDeadline(bid, Num(st.subcontractorBidDays)),
                  !.scopeReviewDeadline        = getScopeReviewDeadline(bid, Num(st.scopeReviewDays)),
                  !.addendumCheckDeadline      = getAddendumCheckDeadline(bid, Num(st.addendumCheckDays))]
    IN  IF \E f \in InternalFields : IsThrow(out[f])
        THEN Throw("RangeError")
        ELSE out

\* The object literal of calculateInternalEvents: the spread of data, then the
\* seven keys written after it (settings defaults to DEFAULT_LEAD_TIMES).  An
\* exception thrown while a property value is evaluated leaves no object: the
\* call throws.
calculateInternalEvents(rec, settings) ==
    LET st  == IF settings = UNDEFINED THEN DEFAULT_LEAD_TIMES ELSE settings
        bid == OrElse(rec.bidDueDate, NULL)
        rfi == OrElse(rec.rfiDueDate, NULL)
        out == [rec EXCEPT
                  !.bidBondRequirement         = OrElse(rec.bidBondRequirement, NULL),
                  !.bondRequestDeadline        = getBondDeadline(bid, Num(st.bondRequestDays)),
                  !.finalizeBidPackageDeadline = getFinalizeBidDeadline(bid, Num(st.finalizeBidDays)),
                  !.finalizeRfiDeadline        = getFinalizeRfiDeadline(rfi, Num(st.finalizeRfiDays)),
                  !.subcontractorBidDeadline   = getSubcontractorBidDeadline(bid, Num(st.subcontractorBidDays)),
                  !.scopeReviewDeadline        = getScopeReviewDeadline(bid, Num(st.scopeReviewDays)),
                  !.addendumCheckDeadline      = getAddendumCheckDeadline(bid, Num(st.addendumCheckDays))]
    IN  IF \E f \in InternalFields : IsThrow(out[f])
        THEN Throw("RangeError")
        ELSE out

(***************************************************************************)
(* Calendar deep links (utils/calendar.ts)                                 *)
(***************************************************************************)
\* iso.replace(/[-:]/g, "").split(".")[0] + "Z": the separators and the
\* milliseconds go, and so does the minus sign of a negative (expanded) year,
\* while the plus sign of a year above 9999 stays.
CompactUTC(iso) ==
    IF IsThrow(iso) THEN iso
    ELSE [kind |-> "compact",
          sign |-> IF iso.Y > 9999 THEN "+" ELSE "",
          Y |-> IF iso.Y < 0 THEN -iso.Y ELSE iso.Y,
          M |-> iso.M, D |-> iso.D, h |-> iso.h, mi |-> iso.mi, s |-> iso.s]

\* A string parameter with the default value "".
DefaultEmpty(x) == IF x = UNDEFINED THEN Str("") ELSE x

generateGoogleCalendarUrl(summary, dateStr, description, location) ==
    IF ~Truthy(dateStr) THEN Str("")
    ELSE LET d == DateParse(hostZone, dateStr)
         IN  IF d.kind = "NaN" THEN Str("")
             ELSE LET start == CompactUTC(toISOString(d))
                      endD  == setHoursPlusOne(hostZone, d)
                      end   == CompactUTC(toISOString(endD))
                  IN  IF IsThrow(end) THEN end
                      ELSE [kind   |-> "url",
                            base   |-> "https://www.google.com/calendar/render",
                            params |-> [action   |-> Str("TEMPLATE"),
                                        text     |-> summary,
                                        dates    |-> <<start, end>>,
                                        details  |-> description,
                                        location |-> DefaultEmpty(location)]]

generateOutlookCalendarUrl(summary, dateStr, description, location) ==
    IF ~Truthy(dateStr) THEN Str("")
    ELSE LET d == DateParse(hostZone, dateStr)
         IN  IF d.kind = "NaN" THEN Str("")
             ELSE LET start == toISOString(d)
                      endD  == setHoursPlusOne(hostZone, d)
                      end   == toISOString(endD)
                  IN  IF IsThrow(end) THEN end
                      ELSE [kind   |-> "url",
                            base   |-> "https://outlook.office.com/calendar/0/deeplink/compose",
                            params |-> [path     |-> Str("/calendar/action/compose"),
                                        rru      |-> Str("addevent"),
                                        subject  |-> summary,
                                        startdt  |-> start,
                                        enddt    |-> end,
                                        body     |-> description,
                                        location |-> DefaultEmpty(location)]]

(***************************************************************************)
(* ICS serializer (utils/calendar.ts)                                      *)
(***************************************************************************)
\* ${x} in a template literal: the pieces of the string x stands for.
Interp(x) ==
    CASE x.kind = "text"      -> x.v
      [] x.kind = "null"      -> <<"null">>
      [] x.kind = "undefined" -> <<"undefined">>
      [] OTHER                -> <<x>>

\* s.replace(/\n/g, "\\n"): every line feed becomes backslash, n.
EscapeNewlines(pieces) ==
    [i \in 1..Len(pieces) |-> IF pieces[i] = LF THEN BSN ELSE pieces[i]]

\* A line of the document: a fixed line, or NAME:value.
Line(tag) == [tag |-> tag]

Prop(tag, v) == [tag |-> tag, v |-> v]

\* formatDate of generateICS: "" for a string new Date() cannot read.
formatDate(isoString) ==
    LET d == DateParse(hostZone, isoString)
    IN  IF d.kind = "NaN" THEN Str("") ELSE CompactUTC(toISOString(d))

\* The VALARM block of one reminder option.
Alarm(summary, label, trigger) ==
    << Line("BEGIN:VALARM"),
       Line("ACTION:DISPLAY"),
       Prop("DESCRIPTION", <<"Reminder: ">> \o summary \o <<" (", label, ")">>),
       Prop("TRIGGER", trigger),
       Line("END:VALARM") >>

\* addEvent writing the UID from the stamp alone, without the random token.
EventBlock_UidFromStamp(summary, dtStart, dtEnd, description, location, options, stamp, token) ==
    << Line("BEGIN:VEVENT"),
       Prop("UID", <<stamp, "@bidcalendar.ai">>),
       Prop("DTSTAMP", stamp),
       Prop("DTSTART", dtStart),
       Prop("DTEND", dtEnd),
       Prop("SUMMARY", summary) >>
    \o (IF description # <<>> THEN <<Prop("DESCRIPTION", description)>> ELSE <<>>)
    \o (IF Truthy(location) THEN <<Prop("LOCATION", location.v)>> ELSE <<>>)
    \o (IF options.reminders.oneHour THEN Alarm(summary, "1 Hour", "-PT1H") ELSE <<>>)
    \o (IF options.reminders.oneDay THEN Alarm(summary, "1 Day", "-P1D") ELSE <<>>)
    \o (IF options.reminders.threeDays THEN Alarm(summary, "3 Days", "-P3D") ELSE <<>>)
    \o (IF options.reminders.oneWeek THEN Alarm(summary, "1 Week", "-P7D") ELSE <<>>)
    \o << Line("END:VEVENT") >>

\* addEvent pushing the 1-week alarm first instead of last.
EventBlock_WeekFirst(summary, dtStart, dtEnd, description, location, options, stamp, token) ==
    << Line("BEGIN:VEVENT"),
       Prop("UID", <<stamp, "-", token, "@bidcalendar.ai">>),
       Prop("DTSTAMP", stamp),
       Prop("DTSTART", dtStart),
       Prop("DTEND", dtEnd),
       Prop("SUMMARY", summary) >>
    \o (IF description # <<>> THEN <<Prop("DESCRIPTION", description)>> ELSE <<>>)
    \o (IF Truthy(location) THEN <<Prop("LOCATION", location.v)>> ELSE <<>>)
    \o (IF options.reminders.oneWeek THEN Alarm(summary, "1 Week", "-P7D") ELSE <<>>)
    \o (IF options.reminders.oneHour THEN Alarm(summary, "1 Hour", "-PT1H") ELSE <<>>)
    \o (IF options.reminders.oneDay THEN Alarm(summary, "1 Day", "-P1D") ELSE <<>>)
    \o (IF options.reminders.threeDays THEN Alarm(summary, "3 Days", "-P3D") ELSE <<>>)
    \o << Line("END:VEVENT") >>

\* The lines addEvent pushes once both date values are in hand.
EventBlock(summary, dtStart, dtEnd, description, location, options, stamp, token) ==
    << Line("BEGIN:VEVENT"),
       Prop("UID", <<stamp, "-", token, "@bidcalendar.ai">>),
       Prop("DTSTAMP", stamp),
       Prop("DTSTART", dtStart),
       Prop("DTEND", dtEnd),
       Prop("SUMMARY", summary) >>
    \o (IF description # <<>> THEN <<Prop("DESCRIPTION", description)>> ELSE <<>>)
    \o (IF Truthy(location) THEN <<Prop("LOCATION", location.v)>> ELSE <<>>)
    \o (IF options.reminders.oneHour THEN Alarm(summary, "1 Hour", "-PT1H") ELSE <<>>)
    \o (IF options.reminders.oneDay THEN Alarm(summary, "1 Day", "-P1D") ELSE <<>>)
    \o (IF options.reminders.threeDays THEN Alarm(summary, "3 Days", "-P3D") ELSE <<>>)
    \o (IF options.reminders.oneWeek THEN Alarm(summary, "1 Week", "-P7D") ELSE <<>>)
    \o << Line("END:VEVENT") >>

\* addEvent without "if (!dateStr) return": new Date(null) is the epoch, so a
\* null date is written as an event on 1970-01-01.
addEvent_NoNullGuard(summary, dateStr, description, location, options, now, token) ==
    LET d == IF dateStr = NULL THEN Tv(0, 0)
             ELSE IF Truthy(dateStr) THEN DateParse(hostZone, dateStr) ELSE NaN
    IN  IF d.kind = "NaN" THEN <<>>
        ELSE LET endIso == toISOString(setHoursPlusOne(hostZone, d))
             IN  IF IsThrow(endIso) THEN <<>>
                 ELSE EventBlock(summary, CompactUTC(toISOString(d)), formatDate(endIso),
                                 description, location, options,
                                 formatDate(toISOString(now)), token)

\* addEvent: the lines one call pushes onto icsContent: none when the date is
\* missing or unreadable, and none when d.toISOString() throws after setHours,
\* which the catch logs before anything was pushed.
addEvent(summary, dateStr, description, location, options, now, token) ==
    IF ~Truthy(dateStr) THEN <<>>
    ELSE LET d == DateParse(hostZone, dateStr)
         IN  IF d.kind = "NaN" THEN <<>>
             ELSE LET dtStart == formatDate(dateStr)
                      endIso  == toISOString(setHoursPlusOne(hostZone, d))
                  IN  IF ~Truthy(dtStart) THEN <<>>
                      ELSE IF IsThrow(endIso) THEN <<>>
                      ELSE EventBlock(summary, dtStart, formatDate(endIso),
                                      description, location, options,
                                      formatDate(toISOString(now)), token)

\* The text shared by every description (footer and baseInfo of generateICS).
footer == <<BSN, BSN, "--- Generated by BidCalendar AI ---">>

baseInfo(rec) ==
    LET noteSection == IF Truthy(rec.comments)
                       THEN <<BSN, BSN, "User Notes:", BSN>> \o EscapeNewlines(rec.comments.v)
                       ELSE <<>>
        descSection == IF Truthy(rec.projectDescription)
                       THEN <<BSN, "Scope: ">> \o EscapeNewlines(rec.projectDescription.v)
                       ELSE <<>>
        bondInfo    == IF Truthy(rec.bidBondRequirement)
                       THEN <<BSN, "Bid Bond Required: ">> \o Interp(rec.bidBondRequirement)
                       ELSE <<>>
    IN  <<"Project: ">> \o Interp(rec.projectName) \o <<BSN, "Agency: ">> \o Interp(rec.agencyName)
        \o (IF Truthy(rec.projectAddress)
            THEN <<BSN, "Site Location: ">> \o Interp(rec.projectAddress) ELSE <<>>)
        \o descSection \o bondInfo \o noteSection

\* The four addEvent calls that are always made, in order.
ExternalEvents(rec) ==
    LET name   == Interp(rec.projectName)
        agency == Interp(rec.agencyName)
        tail   == baseInfo(rec) \o footer
        must   == rec.isSiteVisitMandatory.kind = "bool" /\ rec.isSiteVisitMandatory.v
    IN  << [summary     |-> <<"[BID DUE] ">> \o name,
            date        |-> rec.bidDueDate,
            description |-> <<"CRITICAL DEADLINE: Official bid submission deadline for ">> \o name
                            \o <<".", BSN, BSN, "Agency: ">> \o agency \o <<BSN>> \o tail,
            location    |-> rec.projectAddress],
           [summary     |-> <<"[RFI DUE] ">> \o name,
            date        |-> rec.rfiDueDate,
            description |-> <<"Deadline to submit all Requests for Information (RFIs) to ">> \o agency
                            \o <<" for ">> \o name \o <<".", BSN, BSN>> \o tail,
            location    |-> rec.projectAddress],
           [summary     |-> (IF must THEN <<"[MANDATORY SITE VISIT] ">> ELSE <<"[SITE VISIT] ">>) \o name,
            date        |-> rec.siteVisitDate,
            description |-> (IF must THEN <<"REQUIRED: ">> ELSE <<>>)
                            \o <<"Site visit and pre-bid conference for ">> \o name
                            \o <<".", BSN, BSN>> \o tail,
            location    |-> rec.projectAddress],
           [summary     |-> <<"[RSVP] Site Visit: ">> \o name,
            date        |-> rec.rsvpDeadline,
            description |-> <<"Deadline to notify ">> \o agency
                            \o <<" of your intent to attend the site visit for ">> \o name
                            \o <<".", BSN, BSN>> \o tail,
            location    |-> rec.projectAddress] >>

\* The six addEvent calls made when options.includeInternal is set, in order.
InternalEvents(rec) ==
    LET name   == Interp(rec.projectName)
        agency == Interp(rec.agencyName)
        tail   == baseInfo(rec) \o footer
        bondDesc == IF Truthy(rec.bidBondRequirement)
                    THEN <<"Internal Milestone: Submit bid bond request (">>
                         \o Interp(rec.bidBondRequirement)
                         \o <<") to your surety agent for ">> \o name \o <<".">>
                    ELSE <<"Internal Milestone: Submit bid bond request to your surety agent for ">>
                         \o name \o <<".">>
        ev(label, date, text) ==
            [summary |-> <<"[INTERNAL] ", label, ": ">> \o name, date |-> date,
             description |-> text \o <<BSN, BSN>> \o tail, location |-> UNDEFINED]
    IN  << ev("Bond Request", rec.bondRequestDeadline,
              bondDesc \o <<BSN, BSN, "This deadline is set before the bid is due to ">> \o agency \o <<".">>),
           ev("Finalize RFI List", rec.finalizeRfiDeadline,
              <<"Internal Milestone: Finalize all technical questions for ">> \o name
              \o <<" to ensure submission by the ">> \o agency \o <<" RFI deadline.">>),
           ev("Final Bid Package Prep", rec.finalizeBidPackageDeadline,
              <<"Internal Milestone: Complete all estimate reviews and final documentation for the ">>
              \o name \o <<" bid package.">>),
           ev("Subcontractor Bids Due", rec.subcontractorBidDeadline,
              <<"Internal Milestone: Deadline for subcontractor pricing submissions for ">> \o name
              \o <<".", BSN, BSN, "Ensure all trades have submitted their numbers.">>),
           ev("Scope Review", rec.scopeReviewDeadline,
              <<"Internal Milestone: Complete detailed scope review and takeoffs for ">> \o name
              \o <<".", BSN, BSN, "Verify quantities and identify any gaps.">>),
           ev("Addendum Check", rec.addendumCheckDeadline,
              <<"Internal Milestone: Final addendum review for ">> \o name
              \o <<".", BSN, BSN, "Ensure all addenda are incorporated into your bid.">>) >>

\* generateICS writing the internal milestones whatever options.includeInternal is.
AttemptedEvents_AlwaysInternal(rec, options) ==
    ExternalEvents(rec) \o InternalEvents(rec)

\* The addEvent calls of one generateICS run, in program order.
AttemptedEvents(rec, options) ==
    ExternalEvents(rec) \o (IF options.includeInternal THEN InternalEvents(rec) ELSE <<>>)

\* Number of lines with the given tag.
CountTag(lines, tag) == Cardinality({i \in 1..Len(lines) : lines[i].tag = tag})

\* icsContent after the addEvent calls for events[i], events[i+1], ...; lines
\* is icsContent so far, and clock[k] and random[k] are what new Date() and
\* Math.random() give while the k-th emitted event is written.
RECURSIVE PushEvents(_, _, _, _, _, _, _)
PushEvents(events, i, lines, k, options, clock, random) ==
    IF i > Len(events) THEN lines
    ELSE LET e     == events[i]
             block == addEvent(e.summary, e.date, e.description, DefaultEmpty(e.location),
                               options, clock[k], random[k])
         IN  PushEvents(events, i + 1, lines \o block, IF block = <<>> THEN k ELSE k + 1,
                        options, clock, random)

\* The separator "\r\n" of the join.
CRLF == [sep |-> "\\r\\n"]

\* Array.prototype.join: the elements with the separator between each two of
\* them, and nothing after the last element.
Join(lines, sep) ==
    [i \in 1..(IF lines = <<>> THEN 0 ELSE 2 * Len(lines) - 1) |->
        IF i % 2 = 1 THEN lines[(i + 1) \div 2] ELSE sep]

\* The value generateICS returns for the given icsContent.
Joined(lines) == [kind |-> "ics", lines |-> lines, text |-> Join(lines, CRLF)]

\* generateICS: icsContent when it is returned (lines) and the returned text,
\* icsContent.join("\r\n").
generateICS(rec, options, clock, random) ==
    LET events == AttemptedEvents(rec, options)
    IN  Joined(PushEvents(events, 1,
                          << Line("BEGIN:VCALENDAR"), Line("VERSION:2.0"),
                             Line("PRODID:-//BidCalendarAI//Construction//EN"),
                             Line("CALSCALE:GREGORIAN"), Line("METHOD:PUBLISH") >>,
                          1, options, clock, random)
               \o <<Line("END:VCALENDAR")>>)

(***************************************************************************)
(* Milestone list (utils/calendar.ts)                                      *)
(***************************************************************************)
Milestone(label, date, color, type) ==
    [label |-> label, date |-> date, color |-> color, type |-> type]

\* list before the filter: the four external entries whatever their date,
\* then, with includeInternal, the internal entries whose date is truthy.
MilestoneList(rec, includeInternal) ==
    << Milestone("Bid Due", rec.bidDueDate, "#dc2626", "external"),
       Milestone("RFI Due", rec.rfiDueDate, "#2563eb", "external"),
       Milestone("Site Visit", rec.siteVisitDate, "#d97706", "external"),
       Milestone("RSVP Deadline", rec.rsvpDeadline, "#4f46e5", "external") >>
    \o (IF includeInternal
        THEN SelectSeq(
               << Milestone("Scope Review", rec.scopeReviewDeadline, "#0891b2", "internal"),
                  Milestone("Sub Bids Due", rec.subcontractorBidDeadline, "#7c3aed", "internal"),
                  Milestone("Bond Request", rec.bondRequestDeadline, "#9333ea", "internal"),
                  Milestone("Addendum Check", rec.addendumCheckDeadline, "#059669", "internal"),
                  Milestone("Finalize RFIs", rec.finalizeRfiDeadline, "#4b5563", "internal"),
                  Milestone("Final Prep", rec.finalizeBidPackageDeadline, "#4b5563", "internal") >>,
               LAMBDA m : Truthy(m.date))
        ELSE <<>>)

\* new Date(m.date).getTime(): a time value or NaN.
GetTime(m) == DateParse(hostZone, m.date)

\* The sign sort sees for the comparator dateA - dateB: a NaN difference counts
\* as +0.
CompareFn(a, b) ==
    IF GetTime(a).kind = "NaN" \/ GetTime(b).kind = "NaN" THEN 0
    ELSE IF TvLess(GetTime(a), GetTime(b)) THEN -1
    ELSE IF TvLess(GetTime(b), GetTime(a)) THEN 1
    ELSE 0

\* The comparator is a consistent one for the elements of the list: comparing
\* equal is transitive (the other conditions hold for a difference of numbers).
ConsistentComparator(list) ==
    \A i \in 1..Len(list) : \A j \in 1..Len(list) : \A k \in 1..Len(list) :
        (CompareFn(list[i], list[j]) = 0 /\ CompareFn(list[j], list[k]) = 0)
            => CompareFn(list[i], list[k]) = 0

\* Position of list[i] after a stable sort.
RankIn(list, i) ==
    1 + Cardinality({j \in 1..Len(list) :
                        \/ CompareFn(list[j], list[i]) < 0
                        \/ (CompareFn(list[j], list[i]) = 0 /\ j < i)})

StableSort(list) ==
    [r \in 1..Len(list) |-> list[CHOOSE i \in 1..Len(list) : RankIn(list, i) = r]]

\* Array.prototype.sort with the comparator: the stable sort when the
\* comparator is consistent, and otherwise an order the engine chooses, which
\* may be any arrangement of the elements.
SortOutcomes(list) ==
    IF ConsistentComparator(list) THEN {StableSort(list)}
    ELSE {[i \in 1..Len(list) |-> list[p[i]]] : p \in Permutations(1..Len(list))}

\* getMilestones: the lists the call may return.
getMilestones(rec, includeInternal) ==
    SortOutcomes(SelectSeq(MilestoneList(rec, includeInternal), LAMBDA m : Truthy(m.date)))

(***************************************************************************)
(* Inputs of the calls                                                     *)
(***************************************************************************)
\* Lead times 0..MaxLeadDays are tried, and one far larger value.
MaxLeadDays == 10

HugeLeadDays == 200000000

ZoneUTC == Zone(0, 0, Tv(0, 0))

\* UTC+05:30 all year.
ZoneKolkata == Zone(5 * ONE_HOUR + 30 * 60000, 5 * ONE_HOUR + 30 * 60000, Tv(0, 0))

\* UTC-04:00 until 2025-11-02T06:00:00Z, UTC-05:00 from then on (clocks go back).
ZoneNewYork ==
    Zone(-4 * ONE_HOUR, -5 * ONE_HOUR, Tv(DaysFromCivil(2025, 11, 2), 6 * ONE_HOUR))

Zones == {ZoneUTC, ZoneKolkata, ZoneNewYork}

SampleInstants ==
    { Tv(DaysFromCivil(2025, 1, 15), 17 * ONE_HOUR),
      Tv(DaysFromCivil(2025, 2, 3), 17 * ONE_HOUR),
      Tv(DaysFromCivil(2025, 1, 3), 17 * ONE_HOUR),
      Tv(DaysFromCivil(2024, 3, 1), 9 * ONE_HOUR + 30 * 60000 + 15 * 1000 + 250),
      Tv(DaysFromCivil(2025, 11, 2), 5 * ONE_HOUR + 30 * 60000),
      Tv(-MaxDay, 0),
      Tv(MaxDay, 0) }

IsoArgs == {toISOString(t) : t \in SampleInstants}

LocalArgs == {LocalStr(2025, 1, 15, 17, 0)}

BadDateArgs == {NULL, Str(""), Str("not-a-date")}

DateArgs == BadDateArgs \cup IsoArgs \cup LocalArgs

DayArgs == {UNDEFINED} \cup {Num(n) : n \in (0..MaxLeadDays) \cup {HugeLeadDays}}

\* dateStr is one of: null, "", a string new Date() cannot read.
BadDate(v) == ~Truthy(v) \/ DateParse(hostZone, v).kind = "NaN"

(***************************************************************************)
(* The store after construction                                            *)
(***************************************************************************)
NoJob == [phase |-> "none"]

initialState ==
    /\ status = "idle"
    /\ data = NULL
    /\ error = NULL
    /\ leadTimeSettings = DEFAULT_LEAD_TIMES
    /\ auditLog = [len |-> 0, last |-> NULL]
    /\ job = NoJob
    /\ nOps = 0

(***************************************************************************)
(* Calls of the deadline helpers and of the deep-link builders             *)
(***************************************************************************)
NoCall == [fn |-> "none"]

Returned(fn, val) == [fn |-> fn, val |-> val]

DeadlineHelpers ==
    {"getBondDeadline", "getFinalizeBidDeadline", "getFinalizeRfiDeadline",
     "getSubcontractorBidDeadline", "getScopeReviewDeadline", "getAddendumCheckDeadline"}

ApplyHelper(fn, dateStr, daysBefore) ==
    CASE fn = "getBondDeadline"             -> getBondDeadline(dateStr, daysBefore)
      [] fn = "getFinalizeBidDeadline"      -> getFinalizeBidDeadline(dateStr, daysBefore)
      [] fn = "getFinalizeRfiDeadline"      -> getFinalizeRfiDeadline(dateStr, daysBefore)
      [] fn = "getSubcontractorBidDeadline" -> getSubcontractorBidDeadline(dateStr, daysBefore)
      [] fn = "getScopeReviewDeadline"      -> getScopeReviewDeadline(dateStr, daysBefore)
      [] fn = "getAddendumCheckDeadline"    -> getAddendumCheckDeadline(dateStr, daysBefore)

InitDeadline ==
    /\ hostZone \in Zones
    /\ initialState
    /\ arg \in [dateStr : DateArgs, days : DayArgs, location : {UNDEFINED, Str("100 Main Street")}]
    /\ ret = NoCall

CallGetDeadlineBefore ==
    /\ ret = NoCall
    /\ arg.days # UNDEFINED
    /\ ret' = Returned("getDeadlineBefore", getDeadlineBefore(arg.dateStr, arg.days.n))
    /\ UNCHANGED <<hostZone, storeVars, arg>>

CallDeadlineHelper ==
    /\ ret = NoCall
    /\ \E fn \in DeadlineHelpers :
          ret' = Returned(fn, ApplyHelper(fn, arg.dateStr, arg.days))
    /\ UNCHANGED <<hostZone, storeVars, arg>>

CallGenerateGoogleCalendarUrl ==
    /\ ret = NoCall
    /\ ret' = Returned("generateGoogleCalendarUrl",
                       generateGoogleCalendarUrl(Str("[BID DUE] Test Project"), arg.dateStr,
                                                 Str("Description"), arg.location))
    /\ UNCHANGED <<hostZone, storeVars, arg>>

CallGenerateOutlookCalendarUrl ==
    /\ ret = NoCall
    /\ ret' = Returned("generateOutlookCalendarUrl",
                       generateOutlookCalendarUrl(Str("[BID DUE] Test Project"), arg.dateStr,
                                                  Str("Description"), arg.location))
    /\ UNCHANGED <<hostZone, storeVars, arg>>

NextDeadline ==
    \/ CallGetDeadlineBefore
    \/ CallDeadlineHelper
    \/ CallGenerateGoogleCalendarUrl
    \/ CallGenerateOutlookCalendarUrl

SpecDeadline == InitDeadline /\ [][NextDeadline]_vars

C4_AbsenceOnBadDate ==
    (ret # NoCall /\ BadDate(arg.dateStr)) =>
        /\ ret.fn \in DeadlineHelpers \cup {"getDeadlineBefore"} => ret.val = NULL
        /\ ret.fn \in {"generateGoogleCalendarUrl", "generateOutlookCalendarUrl"} =>
              ret.val = Str("")

\* C4: a helper was called with an unparseable anchor, or a deep-link builder
\* with a null one.
C4_Witness ==
    \/ /\ ret.fn = "getScopeReviewDeadline"
       /\ arg.dateStr = Str("not-a-date")
       /\ ret.val = NULL
    \/ /\ ret.fn = "generateOutlookCalendarUrl"
       /\ arg.dateStr = NULL
       /\ ret.val = Str("")

(***************************************************************************)
(* Calls of calculateInternalEvents                                        *)
(***************************************************************************)
\* The anchor and lead time each internal deadline is derived from.
AnchorOf(f) == IF f = "finalizeRfiDeadline" THEN "rfiDueDate" ELSE "bidDueDate"

LeadKeyOf(f) ==
    CASE f = "bondRequestDeadline"        -> "bondRequestDays"
      [] f = "finalizeBidPackageDeadline" -> "finalizeBidDays"
      [] f = "finalizeRfiDeadline"        -> "finalizeRfiDays"
      [] f = "subcontractorBidDeadline"   -> "subcontractorBidDays"
      [] f = "scopeReviewDeadline"        -> "scopeReviewDays"
      [] f = "addendumCheckDeadline"      -> "addendumCheckDays"

\* A record with every key absent.
EmptyRecord == [f \in DataFields |-> UNDEFINED]

\* Partial<FullProjectData> inputs: anchors that are absent, null, empty,
\* unparseable, valid or at the edge of the range of Date; a bid-bond text that
\* is absent, null, empty or set; internal deadlines absent or left over from
\* an earlier computation.
RecordArgs ==
    { [EmptyRecord EXCEPT
          !.projectName = Str("Test Project"),
          !.agencyName = Str("Test Agency"),
          !.isSiteVisitMandatory = Bool(FALSE),
          !.bidDueDate = bid,
          !.rfiDueDate = rfi,
          !.bidBondRequirement = bond,
          !.bondRequestDeadline = old,
          !.finalizeRfiDeadline = old,
          !.scopeReviewDeadline = old] :
        bid  \in {UNDEFINED, NULL, Str(""), Str("not-a-date"),
                  IsoStr(2025, 1, 15, 17, 0, 0, 0), toISOString(Tv(-MaxDay, 0))},
        rfi  \in {UNDEFINED, NULL, IsoStr(2025, 1, 10, 17, 0, 0, 0), LocalStr(2025, 1, 15, 17, 0)},
        bond \in {UNDEFINED, NULL, Str(""), Str("10%")},
        old  \in {UNDEFINED, IsoStr(2024, 12, 24, 8, 0, 0, 0)} }

SettingsArgs ==
    { UNDEFINED,
      DEFAULT_LEAD_TIMES,
      [DEFAULT_LEAD_TIMES EXCEPT !.bondRequestDays = 7, !.finalizeRfiDays = 0],
      [DEFAULT_LEAD_TIMES EXCEPT !.scopeReviewDays = HugeLeadDays] }

InitCalc ==
    /\ hostZone \in Zones
    /\ initialState
    /\ arg \in [rec : RecordArgs, settings : SettingsArgs]
    /\ ret = NoCall

CallCalculateInternalEvents ==
    /\ ret = NoCall
    /\ ret' = Returned("calculateInternalEvents", calculateInternalEvents(arg.rec, arg.settings))
    /\ UNCHANGED <<hostZone, storeVars, arg>>

\* The result of the first call is passed to a second call, same settings.
CallCalculateInternalEventsAgain ==
    /\ ret.fn = "calculateInternalEvents"
    /\ ~IsThrow(ret.val)
    /\ ret' = [fn |-> "calculateInternalEvents twice", first |-> ret.val,
               val |-> calculateInternalEvents(ret.val, arg.settings)]
    /\ UNCHANGED <<hostZone, storeVars, arg>>

NextCalc == CallCalculateInternalEvents \/ CallCalculateInternalEventsAgain

SpecCalc == InitCalc /\ [][NextCalc]_vars

\* C7: calculateInternalEvents applied to its own output, with the same
\* settings, returns that output unchanged.
C7_Idempotent ==
    ret.fn = "calculateInternalEvents twice" => ret.val = ret.first

\* C7: a record with stale internal deadlines and valid anchors went through
\* both calls.
C7_Witness ==
    /\ ret.fn = "calculateInternalEvents twice"
    /\ arg.rec.bondRequestDeadline = IsoStr(2024, 12, 24, 8, 0, 0, 0)
    /\ arg.rec.bidDueDate = IsoStr(2025, 1, 15, 17, 0, 0, 0)
    /\ ret.first.bondRequestDeadline = IsoStr(2025, 1, 10, 17, 0, 0, 0)

\* C8: the result of calculateInternalEvents equals its input (which the call
\* leaves as it was) in every field except the six internal deadlines and
\* bidBondRequirement; bidBondRequirement is the input value when truthy and
\* null otherwise, never undefined.
C8_FrameAndBondNormalised ==
    (ret.fn = "calculateInternalEvents" /\ ~IsThrow(ret.val)) =>
        /\ \A f \in DataFields \ (InternalFields \cup {"bidBondRequirement"}) :
              ret.val[f] = arg.rec[f]
        /\ ret.val.bidBondRequirement =
              (IF Truthy(arg.rec.bidBondRequirement) THEN arg.rec.bidBondRequirement ELSE NULL)
        /\ ret.val.bidBondRequirement # UNDEFINED

\* C8: a record without bidBondRequirement was given and came back with null.
C8_Witness ==
    /\ ret.fn = "calculateInternalEvents"
    /\ arg.rec.bidBondRequirement = UNDEFINED
    /\ arg.rec.bidDueDate = IsoStr(2025, 1, 15, 17, 0, 0, 0)
    /\ ret.val.bidBondRequirement = NULL
    /\ ret.val.projectName = Str("Test Project")

(***************************************************************************)
(* Calls of generateICS                                                    *)
(***************************************************************************)
\* At most this many events are written by one generateICS call.
MaxEvents == 10

BaseRecord ==
    [EmptyRecord EXCEPT
        !.projectName = Str("Test Project"),
        !.agencyName = Str("Test Agency"),
        !.projectAddress = Str("100 Main Street"),
        !.isSiteVisitMandatory = Bool(TRUE),
        !.bidBondRequirement = NULL,
        !.bidDueDate = NULL, !.rfiDueDate = NULL, !.siteVisitDate = NULL, !.rsvpDeadline = NULL,
        !.bondRequestDeadline = NULL, !.finalizeBidPackageDeadline = NULL,
        !.finalizeRfiDeadline = NULL, !.subcontractorBidDeadline = NULL,
        !.scopeReviewDeadline = NULL, !.addendumCheckDeadline = NULL]

\* The six internal deadlines: all null; all valid; some unreadable; one at the
\* last instant a Date can hold.
InternalPatterns ==
    { [f \in InternalFields |-> NULL],
      [f \in InternalFields |->
          getDeadlineBefore(IsoStr(2025, 1, 15, 17, 0, 0, 0), DEFAULT_LEAD_TIMES[LeadKeyOf(f)])],
      [f \in InternalFields |->
          CASE f = "bondRequestDeadline" -> Str("not-a-date")
            [] f = "finalizeRfiDeadline" -> Str("")
            [] OTHER -> IsoStr(2025, 1, 10, 17, 0, 0, 0)],
      [f \in InternalFields |->
          IF f = "scopeReviewDeadline" THEN toISOString(Tv(MaxDay, 0))
          ELSE IsoStr(2025, 1, 10, 17, 0, 0, 0)] }

IcsRecordArgs ==
    { [f \in DataFields |->
          CASE f = "bidDueDate"    -> bid
            [] f = "rfiDueDate"    -> rfi
            [] f = "siteVisitDate" -> site
            [] f = "rsvpDeadline"  -> rsvp
            [] f \in InternalFields -> int[f]
            [] OTHER -> BaseRecord[f]] :
        bid  \in {NULL, IsoStr(2025, 1, 15, 17, 0, 0, 0), Str("not-a-date"), toISOString(Tv(MaxDay, 0))},
        rfi  \in {NULL, IsoStr(2025, 1, 10, 17, 0, 0, 0), Str("")},
        site \in {NULL, IsoStr(2025, 11, 2, 5, 30, 0, 0)},
        rsvp \in {NULL, LocalStr(2025, 1, 15, 17, 0)},
        int  \in InternalPatterns }

OptionsArgs ==
    { [includeInternal |-> inc,
       reminders |-> [oneHour |-> r, oneDay |-> r, threeDays |-> FALSE, oneWeek |-> FALSE]] :
        inc \in BOOLEAN, r \in BOOLEAN }

\* new Date() while the events are written: one millisecond for all of them.
ClockArgs == { [k \in 1..MaxEvents |-> Tv(DaysFromCivil(2025, 1, 2), 9 * ONE_HOUR + 1)] }

\* Math.random() tokens: all different, or the same token drawn twice.
RandomArgs ==
    { [k \in 1..MaxEvents |-> k],
      [k \in 1..MaxEvents |-> IF k = 2 THEN 1 ELSE k] }

\* Every choice of the four reminder options, with and without internal events.
ReminderOptionsArgs ==
    { [includeInternal |-> inc,
       reminders |-> [oneHour |-> h, oneDay |-> d, threeDays |-> t, oneWeek |-> w]] :
        inc \in BOOLEAN, h \in BOOLEAN, d \in BOOLEAN, t \in BOOLEAN, w \in BOOLEAN }

\* A record with two anchors and its six internal deadlines, and one with a
\* single anchor.
ReminderRecordArgs ==
    { [f \in DataFields |->
          CASE f = "bidDueDate" -> IsoStr(2025, 1, 15, 17, 0, 0, 0)
            [] f = "rfiDueDate" -> IsoStr(2025, 1, 10, 17, 0, 0, 0)
            [] f \in InternalFields ->
                  getDeadlineBefore(IsoStr(2025, 1, 15, 17, 0, 0, 0),
                                    DEFAULT_LEAD_TIMES[LeadKeyOf(f)])
            [] OTHER -> BaseRecord[f]],
      [BaseRecord EXCEPT !.siteVisitDate = IsoStr(2025, 11, 2, 5, 30, 0, 0)] }

\* new Date() one second later for each event written.
TickingClockArgs ==
    { [k \in 1..MaxEvents |-> Tv(DaysFromCivil(2025, 1, 2), 9 * ONE_HOUR + 1 + 1000 * k)] }

\* A text of two lines.
TwoLines == Text(<<"Line 1", LF, "Line 2">>)

\* Records in which one of the texts that go into the description has two lines.
TextRecordArgs ==
    { [f \in DataFields |->
          CASE f = multi -> TwoLines
            [] f = "bidDueDate" -> IsoStr(2025, 1, 15, 17, 0, 0, 0)
            [] f = "bondRequestDeadline" -> IsoStr(2025, 1, 10, 17, 0, 0, 0)
            [] f = "bidBondRequirement" -> Str("10%")
            [] f = "projectDescription" -> Str("Renovation")
            [] f = "comments" -> Str("Check parking")
            [] OTHER -> BaseRecord[f]] :
        multi \in {"projectName", "agencyName", "projectAddress", "projectDescription",
                   "bidBondRequirement", "comments"} }

\* The calls of generateICS that are tried: records over the date cases, every
\* choice of reminders, and multi-line texts.
IcsCallArgs ==
    [rec : IcsRecordArgs, options : OptionsArgs, clock : ClockArgs, random : RandomArgs]
    \cup [rec : ReminderRecordArgs, options : ReminderOptionsArgs,
          clock : ClockArgs \cup TickingClockArgs, random : {[k \in 1..MaxEvents |-> k]}]
    \cup [rec : TextRecordArgs, options : OptionsArgs, clock : ClockArgs,
          random : {[k \in 1..MaxEvents |-> k]}]

InitICS ==
    /\ hostZone \in Zones
    /\ initialState
    /\ arg \in IcsCallArgs
    /\ ret = NoCall

CallGenerateICS ==
    /\ ret = NoCall
    /\ ret' = Returned("generateICS", generateICS(arg.rec, arg.options, arg.clock, arg.random))
    /\ UNCHANGED <<hostZone, storeVars, arg>>

NextICS == CallGenerateICS

SpecICS == InitICS /\ [][NextICS]_vars

\* The SUMMARY values of the document, in order.
SummariesOf(lines) ==
    LET picked == SelectSeq(lines, LAMBDA l : l.tag = "SUMMARY")
    IN  [i \in 1..Len(picked) |-> picked[i].v]

\* The summaries of the given addEvent calls, in order.
EventSummaries(events) == [i \in 1..Len(events) |-> events[i].summary]

\* Every BEGIN:VEVENT opens a block with UID, DTSTAMP, DTSTART, DTEND and
\* SUMMARY, the two date values in compact form, closed by its own END:VEVENT.
CompleteBlocks(lines) ==
    /\ CountTag(lines, "BEGIN:VEVENT") = CountTag(lines, "END:VEVENT")
    /\ \A i \in 1..Len(lines) :
          lines[i].tag = "BEGIN:VEVENT" =>
            /\ i + 6 <= Len(lines)
            /\ <<lines[i+1].tag, lines[i+2].tag, lines[i+3].tag, lines[i+4].tag, lines[i+5].tag>>
                  = <<"UID", "DTSTAMP", "DTSTART", "DTEND", "SUMMARY">>
            /\ lines[i+3].v.kind = "compact"
            /\ lines[i+4].v.kind = "compact"
            /\ \E j \in (i+6)..Len(lines) :
                  /\ lines[j].tag = "END:VEVENT"
                  /\ \A k \in (i+1)..(j-1) : lines[k].tag \notin {"BEGIN:VEVENT", "END:VEVENT"}

HeaderAndFooterOnly(lines) ==
    lines = << Line("BEGIN:VCALENDAR"), Line("VERSION:2.0"),
               Line("PRODID:-//BidCalendarAI//Construction//EN"),
               Line("CALSCALE:GREGORIAN"), Line("METHOD:PUBLISH"), Line("END:VCALENDAR") >>

\* The date can be written as an event: it is readable, and the instant one
\* hour later (by setHours) is still one a Date can hold.
Writable(date) ==
    /\ ~BadDate(date)
    /\ setHoursPlusOne(hostZone, DateParse(hostZone, date)).kind # "NaN"

GoodDate(date) == ~BadDate(date)

AllDatesNull(rec) == \A f \in AnchorFields \cup InternalFields : rec[f] = NULL

\* C9 (as claimed): generateICS never throws; an event whose date is null or
\* unparseable contributes no line and every other attempted event is written
\* as a complete block; with all dates null only header and footer remain.
C9_SkipsOnlyBadDates ==
    ret.fn = "generateICS" =>
        /\ ~IsThrow(ret.val)
        /\ SummariesOf(ret.val.lines)
              = EventSummaries(SelectSeq(AttemptedEvents(arg.rec, arg.options),
                                         LAMBDA e : GoodDate(e.date)))
        /\ CompleteBlocks(ret.val.lines)
        /\ AllDatesNull(arg.rec) => HeaderAndFooterOnly(ret.val.lines)

\* C9 (amended): the same, where the events that contribute no line are those
\* whose date is null, empty or unparseable and those whose end, one hour after
\* the date, is past the last instant a Date can hold.
C9_SkipsUnwritableDates ==
    ret.fn = "generateICS" =>
        /\ ~IsThrow(ret.val)
        /\ SummariesOf(ret.val.lines)
              = EventSummaries(SelectSeq(AttemptedEvents(arg.rec, arg.options),
                                         LAMBDA e : Writable(e.date)))
        /\ CompleteBlocks(ret.val.lines)
        /\ AllDatesNull(arg.rec) => HeaderAndFooterOnly(ret.val.lines)

\* C9: a document was produced from a record with an unparseable bid date, an
\* empty RFI date and a valid site-visit date: one complete event.
C9_Witness ==
    /\ ret.fn = "generateICS"
    /\ arg.rec.bidDueDate = Str("not-a-date")
    /\ arg.rec.rfiDueDate = Str("")
    /\ arg.rec.siteVisitDate = IsoStr(2025, 11, 2, 5, 30, 0, 0)
    /\ arg.rec.rsvpDeadline = NULL
    /\ ~arg.options.includeInternal
    /\ CountTag(ret.val.lines, "BEGIN:VEVENT") = 1
    /\ CountTag(ret.val.lines, "END:VEVENT") = 1

\* Number of events whose summary starts with [INTERNAL].
InternalSummaries(lines) ==
    Len(SelectSeq(SummariesOf(lines), LAMBDA sm : sm # <<>> /\ sm[1] = "[INTERNAL] "))

\* C10 (as claimed): without includeInternal no [INTERNAL] event is written;
\* with it and all six internal dates present (readable instants), exactly six.
C10_InternalGate ==
    ret.fn = "generateICS" =>
        /\ ~arg.options.includeInternal => InternalSummaries(ret.val.lines) = 0
        /\ (arg.options.includeInternal /\ \A f \in InternalFields : GoodDate(arg.rec[f]))
              => InternalSummaries(ret.val.lines) = 6

\* C10 (amended): with includeInternal and all six internal dates present and
\* writable (none within the last hour a Date can hold), exactly six.
C10_InternalGateWritable ==
    ret.fn = "generateICS" =>
        /\ ~arg.options.includeInternal => InternalSummaries(ret.val.lines) = 0
        /\ (arg.options.includeInternal /\ \A f \in InternalFields : Writable(arg.rec[f]))
              => InternalSummaries(ret.val.lines) = 6

\* C10: six internal events were written next to an external one.
C10_Witness ==
    /\ ret.fn = "generateICS"
    /\ arg.options.includeInternal
    /\ arg.rec.bidDueDate = IsoStr(2025, 1, 15, 17, 0, 0, 0)
    /\ InternalSummaries(ret.val.lines) = 6
    /\ CountTag(ret.val.lines, "BEGIN:VEVENT") > 6

\* C11 (as claimed): in the text generateICS returns, every line, the final
\* END:VCALENDAR included, is followed by CRLF.
C11_EveryLineEndsWithCRLF ==
    ret.fn = "generateICS" =>
        \A i \in 1..Len(ret.val.text) :
            ret.val.text[i] # CRLF =>
                /\ i < Len(ret.val.text)
                /\ ret.val.text[i + 1] = CRLF

\* The values of the lines with the given tag, in order.
ValuesOf(lines, tag) ==
    LET picked == SelectSeq(lines, LAMBDA l : l.tag = tag)
    IN  [i \in 1..Len(picked) |-> picked[i].v]

\* The addEvent calls of the run that wrote an event, in order.
WrittenEvents(rec, options) ==
    SelectSeq(AttemptedEvents(rec, options), LAMBDA e : Writable(e.date))

\* The compact UTC form of the instant exactly 3,600,000 ms after the date.
OneHourAfter(date) ==
    CompactUTC(toISOString(AddMs(DateParse(hostZone, date), ONE_HOUR)))

\* C12 (as claimed): for every emitted VEVENT, DTSTART encodes the event
\* instant and DTEND the instant exactly 3,600,000 ms later, in every host
\* time zone.
C12_EndIsOneHourAfterStart ==
    ret.fn = "generateICS" =>
        LET written == WrittenEvents(arg.rec, arg.options)
            starts  == ValuesOf(ret.val.lines, "DTSTART")
            ends    == ValuesOf(ret.val.lines, "DTEND")
        IN  /\ Len(starts) = Len(written)
            /\ Len(ends) = Len(written)
            /\ \A k \in 1..Len(written) :
                  /\ starts[k] = formatDate(written[k].date)
                  /\ ends[k] = OneHourAfter(written[k].date)

\* The DTEND values addEvent writes for the date (none when it writes no event).
DtEndFor(date) ==
    ValuesOf(addEvent(<<"[BID DUE] Test Project">>, date, <<"Description">>, Str(""),
                      [includeInternal |-> FALSE,
                       reminders |-> [oneHour |-> FALSE, oneDay |-> FALSE,
                                      threeDays |-> FALSE, oneWeek |-> FALSE]],
                      Tv(0, 0), 1),
             "DTEND")

\* C13 (as claimed): for every valid start instant S and every host time zone,
\* the second value of the Google link's dates parameter and the Outlook
\* link's enddt are the instant exactly one hour after S, which is also the
\* DTEND the ICS serializer writes for S.
C13_LinkEndIsOneHourAfterStart ==
    /\ (ret.fn = "generateGoogleCalendarUrl" /\ ~BadDate(arg.dateStr)) =>
          /\ ~IsThrow(ret.val)
          /\ ret.val.params.dates[2] = OneHourAfter(arg.dateStr)
          /\ DtEndFor(arg.dateStr) = <<ret.val.params.dates[2]>>
    /\ (ret.fn = "generateOutlookCalendarUrl" /\ ~BadDate(arg.dateStr)) =>
          /\ ~IsThrow(ret.val)
          /\ ret.val.params.enddt
                = toISOString(AddMs(DateParse(hostZone, arg.dateStr), ONE_HOUR))
          /\ DtEndFor(arg.dateStr) = <<CompactUTC(ret.val.params.enddt)>>

\* The UID addEvent builds from the stamp of new Date() and the token taken
\* from Math.random().
UidOf(now, token) == <<formatDate(toISOString(now)), "-", token, "@bidcalendar.ai">>

BlockAt(lines, i) ==
    SubSeq(lines, i,
           CHOOSE j \in i..Len(lines) :
              /\ lines[j].tag = "END:VEVENT"
              /\ \A k \in i..(j - 1) : lines[k].tag # "END:VEVENT")

\* The TRIGGER values of the enabled reminders, in the order 1 hour, 1 day,
\* 3 days, 1 week.
EnabledTriggers(reminders) ==
    (IF reminders.oneHour THEN <<"-PT1H">> ELSE <<>>)
    \o (IF reminders.oneDay THEN <<"-P1D">> ELSE <<>>)
    \o (IF reminders.threeDays THEN <<"-P3D">> ELSE <<>>)
    \o (IF reminders.oneWeek THEN <<"-P7D">> ELSE <<>>)

\* Every BEGIN:VALARM of the lines opens ACTION:DISPLAY, DESCRIPTION, TRIGGER,
\* END:VALARM, and there is no other TRIGGER or END:VALARM.
AlarmsWellFormed(lines) ==
    /\ \A i \in 1..Len(lines) :
          lines[i].tag = "BEGIN:VALARM" =>
            /\ i + 4 <= Len(lines)
            /\ <<lines[i+1].tag, lines[i+2].tag, lines[i+3].tag, lines[i+4].tag>>
                  = <<"ACTION:DISPLAY", "DESCRIPTION", "TRIGGER", "END:VALARM">>
    /\ CountTag(lines, "TRIGGER") = CountTag(lines, "BEGIN:VALARM")
    /\ CountTag(lines, "END:VALARM") = CountTag(lines, "BEGIN:VALARM")

\* C15: every emitted VEVENT holds exactly one VALARM block per enabled
\* reminder and none for a disabled one, in the order 1 hour, 1 day, 3 days,
\* 1 week with TRIGGER -PT1H, -P1D, -P3D, -P7D; with no reminder enabled the
\* document holds no VALARM block; no VALARM lies outside a VEVENT.
C15_AlarmsPerEnabledReminder ==
    ret.fn = "generateICS" =>
        LET lines    == ret.val.lines
            triggers == EnabledTriggers(arg.options.reminders)
        IN  /\ \A i \in 1..Len(lines) :
                  lines[i].tag = "BEGIN:VEVENT" =>
                    /\ ValuesOf(BlockAt(lines, i), "TRIGGER") = triggers
                    /\ AlarmsWellFormed(BlockAt(lines, i))
            /\ CountTag(lines, "BEGIN:VALARM")
                  = Len(triggers) * CountTag(lines, "BEGIN:VEVENT")
            /\ triggers = <<>> => CountTag(lines, "BEGIN:VALARM") = 0

\* C15: eight events were written with the 1-hour and the 1-week reminder
\* enabled and the other two disabled: sixteen VALARM blocks.
C15_Witness ==
    /\ ret.fn = "generateICS"
    /\ arg.options.reminders
          = [oneHour |-> TRUE, oneDay |-> FALSE, threeDays |-> FALSE, oneWeek |-> TRUE]
    /\ CountTag(ret.val.lines, "BEGIN:VEVENT") = 8
    /\ CountTag(ret.val.lines, "BEGIN:VALARM") = 16
    /\ ValuesOf(ret.val.lines, "TRIGGER")[1] = "-PT1H"
    /\ ValuesOf(ret.val.lines, "TRIGGER")[2] = "-P7D"

\* C17 (as claimed): no DESCRIPTION property of an emitted VEVENT contains a
\* raw line break: the line feeds of the texts assembled into it (project
\* name, agency, address, scope, bid-bond text, user notes) are all written as
\* backslash, n.
C17_DescriptionHasNoRawLineBreak ==
    ret.fn = "generateICS" =>
        \A i \in 2..Len(ret.val.lines) :
            (ret.val.lines[i].tag = "DESCRIPTION" /\ ret.val.lines[i - 1].tag = "SUMMARY") =>
                \A k \in 1..Len(ret.val.lines[i].v) : ret.val.lines[i].v[k] # LF

(***************************************************************************)
(* Calls of getMilestones                                                  *)
(***************************************************************************)
\* Records as calculateInternalEvents leaves them, over anchors that are null,
\* empty, unparseable, valid, equal to or later than one another; and one
\* record with an empty internal deadline.
MilestoneRecordArgs ==
    { calculateInternalEvents(
          [BaseRecord EXCEPT !.bidDueDate = bid, !.rfiDueDate = rfi,
                             !.siteVisitDate = site, !.rsvpDeadline = rsvp],
          DEFAULT_LEAD_TIMES) :
        bid  \in {NULL, IsoStr(2025, 1, 15, 17, 0, 0, 0), Str("not-a-date"), Str("")},
        rfi  \in {NULL, IsoStr(2025, 1, 10, 17, 0, 0, 0), IsoStr(2025, 1, 20, 17, 0, 0, 0),
                  IsoStr(2025, 1, 15, 17, 0, 0, 0)},
        site \in {NULL, IsoStr(2025, 1, 12, 15, 0, 0, 0)},
        rsvp \in {NULL, LocalStr(2025, 1, 15, 17, 0)} }
    \cup { [calculateInternalEvents(
               [BaseRecord EXCEPT !.bidDueDate = IsoStr(2025, 1, 15, 17, 0, 0, 0),
                                  !.rfiDueDate = IsoStr(2025, 1, 10, 17, 0, 0, 0)],
               DEFAULT_LEAD_TIMES) EXCEPT !.finalizeRfiDeadline = Str("")] }

\* Records with a valid bid date and an RFI date new Date() cannot read.
UnreadableRfiRecordArgs ==
    { calculateInternalEvents(
          [BaseRecord EXCEPT !.bidDueDate = IsoStr(2025, 1, 15, 17, 0, 0, 0),
                             !.rfiDueDate = Str("not-a-date"),
                             !.siteVisitDate = site, !.rsvpDeadline = rsvp],
          DEFAULT_LEAD_TIMES) :
        site \in {NULL, IsoStr(2025, 1, 12, 15, 0, 0, 0)},
        rsvp \in {NULL, LocalStr(2025, 1, 15, 17, 0)} }

InitMilestones ==
    /\ hostZone \in Zones
    /\ initialState
    /\ arg \in [rec : MilestoneRecordArgs, includeInternal : BOOLEAN]
               \cup [rec : UnreadableRfiRecordArgs, includeInternal : {FALSE}]
    /\ ret = NoCall

CallGetMilestones ==
    /\ ret = NoCall
    /\ \E list \in getMilestones(arg.rec, arg.includeInternal) :
          ret' = Returned("getMilestones", list)
    /\ UNCHANGED <<hostZone, storeVars, arg>>

NextMilestones == CallGetMilestones

SpecMilestones == InitMilestones /\ [][NextMilestones]_vars

\* The entries getMilestones is claimed to return: the external ones with a
\* non-null date and, with includeInternal, the internal ones with a non-null
\* date, each with its tag.
NonNullMilestones(rec, includeInternal) ==
    { Milestone("Bid Due", rec.bidDueDate, "#dc2626", "external"),
      Milestone("RFI Due", rec.rfiDueDate, "#2563eb", "external"),
      Milestone("Site Visit", rec.siteVisitDate, "#d97706", "external"),
      Milestone("RSVP Deadline", rec.rsvpDeadline, "#4f46e5", "external") }
    \cup (IF includeInternal
          THEN { Milestone("Scope Review", rec.scopeReviewDeadline, "#0891b2", "internal"),
                 Milestone("Sub Bids Due", rec.subcontractorBidDeadline, "#7c3aed", "internal"),
                 Milestone("Bond Request", rec.bondRequestDeadline, "#9333ea", "internal"),
                 Milestone("Addendum Check", rec.addendumCheckDeadline, "#059669", "internal"),
                 Milestone("Finalize RFIs", rec.finalizeRfiDeadline, "#4b5563", "internal"),
                 Milestone("Final Prep", rec.finalizeBidPackageDeadline, "#4b5563", "internal") }
          ELSE {})

\* No entry of the list comes before an entry with an earlier instant.
SortedByInstant(list) ==
    \A i \in 1..Len(list) : \A j \in 1..Len(list) :
        (i < j /\ GetTime(list[i]).kind # "NaN" /\ GetTime(list[j]).kind # "NaN")
            => ~TvLess(GetTime(list[j]), GetTime(list[i]))

\* C16 (as claimed): getMilestones returns exactly the entries with a non-null
\* date among the four external anchors and, only with includeInternal, the
\* six internal deadlines, each tagged external or internal, each once, and
\* the list is sorted ascending by instant.
C16_NonNullEntriesSorted ==
    ret.fn = "getMilestones" =>
        /\ {ret.val[i] : i \in 1..Len(ret.val)}
              = {m \in NonNullMilestones(arg.rec, arg.includeInternal) :
                    m.date # NULL /\ m.date # UNDEFINED}
        /\ \A i \in 1..Len(ret.val) : \A j \in 1..Len(ret.val) :
              i # j => ret.val[i].label # ret.val[j].label
        /\ SortedByInstant(ret.val)

(***************************************************************************)
(* The application: store actions (store/useAppStore.ts), the handlers of  *)
(* App.tsx, ManualEntryForm, DataEditor and SettingsModal                  *)
(***************************************************************************)
\* At most this many user operations (clicks, edits, submits) in one run.
MaxOps == 4

\* setLeadTimeSettings: the patch is merged over the stored settings.
setLeadTimeSettings(settings, patch) ==
    [k \in LeadTimeKeys |-> IF k \in DOMAIN patch THEN patch[k] ELSE settings[k]]

\* addAuditLog: the entry is appended; the log is kept as its length and its
\* newest entry.
addAuditLog(log, entry) == [len |-> log.len + 1, last |-> entry]

\* updateField that stores the value and never recomputes.
updateField_NoRecalc(field, value) ==
    IF data = NULL THEN UNCHANGED <<data, auditLog>>
    ELSE /\ data' = [data EXCEPT ![field] = value]
         /\ auditLog' = addAuditLog(auditLog,
                [action |-> "edit", details |-> [field |-> field, value |-> value]])

\* updateField: an exception of calculateInternalEvents leaves the store as it was.
updateField(field, value) ==
    IF data = NULL THEN UNCHANGED <<data, auditLog>>
    ELSE LET newData == [data EXCEPT ![field] = value]
             recalculated == calculateInternalEvents(newData, leadTimeSettings)
             logged == addAuditLog(auditLog,
                          [action |-> "edit", details |-> [field |-> field, value |-> value]])
         IN  IF field = "bidDueDate" \/ field = "rfiDueDate"
             THEN IF IsThrow(recalculated)
                  THEN UNCHANGED <<data, auditLog>>
                  ELSE data' = recalculated /\ auditLog' = logged
             ELSE data' = newData /\ auditLog' = logged

\* recalculateInternalEvents, on the settings the store holds after settings'.
recalculateInternalEvents(settings) ==
    IF data = NULL THEN UNCHANGED data
    ELSE LET recalculated == calculateInternalEvents(data, settings)
         IN  IF IsThrow(recalculated) THEN UNCHANGED data ELSE data' = recalculated

\* An Error object: its message, and the lower-case fragments classifyError
\* looks for that the message contains.
Err(message, fragments) == [message |-> message, fragments |-> fragments]

RangeErrorInvalidTime == Err("Invalid time value", {"invalid"})

ErrorArgs ==
    { Err("Failed to fetch", {"fetch"}),
      Err("Unexpected end of JSON input", {"json"}),
      Err("No response text from Gemini", {}) }

classifyError(e) ==
    CASE e.fragments \cap {"network", "fetch", "timeout"} # {} ->
            [type |-> "network_error", retryable |-> TRUE]
      [] e.fragments \cap {"rate limit", "429", "quota"} # {} ->
            [type |-> "rate_limit", retryable |-> TRUE]
      [] e.fragments \cap {"api", "401", "403"} # {} ->
            [type |-> "api_error", retryable |-> FALSE]
      [] e.fragments \cap {"invalid", "corrupt", "cannot read"} # {} ->
            [type |-> "invalid_document", retryable |-> FALSE]
      [] e.fragments \cap {"extract", "parse", "json"} # {} ->
            [type |-> "extraction_failed", retryable |-> TRUE]
      [] OTHER -> [type |-> "unknown", retryable |-> TRUE]

\* What the form fields and the datetime-local inputs can hold.
FormDateArgs == {Str(""), LocalStr(2025, 1, 15, 17, 0)}

EditDateArgs == {Str(""), LocalStr(2025, 2, 3, 9, 0), Str("garbage")}

\* The text of a lead-time input, character by character.
LeadTimeInputs ==
    { <<"7">>, <<"7", ".", "5">>, <<"-", "3">>, <<"a", "b", "c">>, <<>>,
      <<"2", "0", "0", "0", "0", "0", "0", "0", "0">> }

Digits == {"0", "1", "2", "3", "4", "5", "6", "7", "8", "9"}

DigitValue(c) ==
    CASE c = "0" -> 0 [] c = "1" -> 1 [] c = "2" -> 2 [] c = "3" -> 3 [] c = "4" -> 4
      [] c = "5" -> 5 [] c = "6" -> 6 [] c = "7" -> 7 [] c = "8" -> 8 [] c = "9" -> 9

\* The value of the longest run of digits chars starts with, after acc.
RECURSIVE LeadingDigits(_, _)
LeadingDigits(chars, acc) ==
    IF chars = <<>> \/ Head(chars) \notin Digits THEN acc
    ELSE LeadingDigits(Tail(chars), 10 * acc + DigitValue(Head(chars)))

\* parseInt(value, 10): an optional sign, then digits; NaN without a digit.
parseInt(chars) ==
    LET signed == chars # <<>> /\ Head(chars) \in {"-", "+"}
        body   == IF signed THEN Tail(chars) ELSE chars
    IN  IF body = <<>> \/ Head(body) \notin Digits THEN NaN
        ELSE Num(IF signed /\ Head(chars) = "-" THEN 0 - LeadingDigits(body, 0)
                 ELSE LeadingDigits(body, 0))

\* What extractBidInfo can resolve to: no internal deadline, any anchors.
ExtractedArgs ==
    { [EmptyRecord EXCEPT
          !.projectName = Str("Test Project"),
          !.agencyName = Str("Test Agency"),
          !.projectAddress = Str("100 Main Street"),
          !.isSiteVisitMandatory = Bool(FALSE),
          !.siteVisitDate = NULL,
          !.rsvpDeadline = NULL,
          !.bidBondRequirement = Str(""),
          !.bidDueDate = bid,
          !.rfiDueDate = rfi] :
        bid \in {NULL, IsoStr(2025, 1, 15, 17, 0, 0, 0), Str("not-a-date")},
        rfi \in {NULL, IsoStr(2025, 1, 10, 17, 0, 0, 0)} }

\* The application is followed in one host time zone, one with a transition.
StoreZones == {ZoneNewYork}

Init ==
    /\ hostZone \in StoreZones
    /\ initialState
    /\ arg = NULL
    /\ ret = NoCall

\* One more user operation is counted.
UserOp == nOps < MaxOps /\ nOps' = nOps + 1

\* App.handleManualEntry, from the uploader or from the error display.
HandleManualEntry ==
    /\ UserOp
    /\ status = "idle" \/ (status = "error" /\ error # NULL)
    /\ status' = "manual"
    /\ UNCHANGED <<hostZone, data, error, leadTimeSettings, auditLog, job, callVars>>

\* App.handleBackToIdle, the form's back button.
HandleBackToIdle ==
    /\ UserOp
    /\ status = "manual"
    /\ status' = "idle"
    /\ error' = NULL
    /\ UNCHANGED <<hostZone, data, leadTimeSettings, auditLog, job, callVars>>

\* App.handleRetry, the error display's retry button.
HandleRetry ==
    /\ UserOp
    /\ status = "error" /\ error # NULL
    /\ status' = "idle"
    /\ error' = NULL
    /\ UNCHANGED <<hostZone, data, leadTimeSettings, auditLog, job, callVars>>

\* ManualEntryForm.handleSubmit.
HandleSubmit ==
    /\ UserOp
    /\ status = "manual"
    /\ \E bid \in FormDateArgs, rfi \in FormDateArgs, bond \in {Str(""), Str("10%")} :
          LET stamp(v) == IF Truthy(v) THEN toISOString(DateParse(hostZone, v)) ELSE NULL
              extractedData ==
                  [EmptyRecord EXCEPT
                      !.projectName = Str("Manual Project"),
                      !.agencyName = Str("Manual Agency"),
                      !.projectAddress = Str(""),
                      !.projectDescription = OrElse(Str(""), UNDEFINED),
                      !.bidDueDate = stamp(bid),
                      !.rfiDueDate = stamp(rfi),
                      !.siteVisitDate = stamp(Str("")),
                      !.isSiteVisitMandatory = Bool(FALSE),
                      !.rsvpDeadline = stamp(Str("")),
                      !.bidBondRequirement = OrElse(bond, NULL)]
              fullData == calculateInternalEvents(extractedData, leadTimeSettings)
          IN  IF IsThrow(fullData)
              THEN UNCHANGED <<data, status, auditLog>>
              ELSE /\ data' = fullData
                   /\ status' = "review"
                   /\ auditLog' = addAuditLog(auditLog,
                          [action |-> "upload", details |-> [method |-> "manual"]])
    /\ UNCHANGED <<hostZone, error, leadTimeSettings, job, callVars>>

\* App.handleFileSelect up to reader.readAsDataURL: the callbacks keep the
\* leadTimeSettings of the render that created them.
HandleFileSelect ==
    /\ UserOp
    /\ status = "idle"
    /\ status' = "uploading"
    /\ error' = NULL
    /\ job' = [phase |-> "reading", leadTimeSettings |-> leadTimeSettings, fullData |-> NULL]
    /\ UNCHANGED <<hostZone, data, leadTimeSettings, auditLog, callVars>>

\* reader.onload up to the await of extractBidInfo.
ReaderOnload ==
    /\ job.phase = "reading"
    /\ auditLog' = addAuditLog(auditLog, [action |-> "upload", details |-> [method |-> "file"]])
    /\ status' = "processing"
    /\ job' = [job EXCEPT !.phase = "extracting"]
    /\ UNCHANGED <<hostZone, data, error, leadTimeSettings, nOps, callVars>>

\* The catch block of reader.onload.
Caught(err) ==
    /\ error' = classifyError(err)
    /\ status' = "error"
    /\ auditLog' = addAuditLog(auditLog,
          [action |-> "error", details |-> [type |-> classifyError(err).type]])
    /\ job' = NoJob

\* reader.onload keeping the extracted data as they are, without
\* calculateInternalEvents.
ExtractionResolves_NoDerive ==
    /\ job.phase = "extracting"
    /\ \E extracted \in ExtractedArgs :
          /\ auditLog' = addAuditLog(auditLog,
                 [action |-> "extract",
                  details |-> [hasDatesBid |-> Truthy(extracted.bidDueDate),
                               hasDatesRfi |-> Truthy(extracted.rfiDueDate)]])
          /\ job' = [job EXCEPT !.phase = "timer", !.fullData = extracted]
          /\ UNCHANGED <<status, error>>
    /\ UNCHANGED <<hostZone, data, leadTimeSettings, nOps, callVars>>

\* extractBidInfo resolves: reader.onload from the await to setTimeout.
ExtractionResolves ==
    /\ job.phase = "extracting"
    /\ \E extracted \in ExtractedArgs :
          LET fullData == calculateInternalEvents(extracted, job.leadTimeSettings)
          IN  IF IsThrow(fullData)
              THEN Caught(RangeErrorInvalidTime)
              ELSE /\ auditLog' = addAuditLog(auditLog,
                          [action |-> "extract",
                           details |-> [hasDatesBid |-> Truthy(fullData.bidDueDate),
                                        hasDatesRfi |-> Truthy(fullData.rfiDueDate)]])
                   /\ job' = [job EXCEPT !.phase = "timer", !.fullData = fullData]
                   /\ UNCHANGED <<status, error>>
    /\ UNCHANGED <<hostZone, data, leadTimeSettings, nOps, callVars>>

\* extractBidInfo rejects.
ExtractionRejects ==
    /\ job.phase = "extracting"
    /\ \E err \in ErrorArgs : Caught(err)
    /\ UNCHANGED <<hostZone, data, leadTimeSettings, nOps, callVars>>

\* The 400 ms callback setting the status without storing the record.
TimerFires_StatusOnly ==
    /\ job.phase = "timer"
    /\ status' = "review"
    /\ job' = NoJob
    /\ UNCHANGED <<hostZone, data, error, leadTimeSettings, auditLog, nOps, callVars>>

\* The 400 ms timer of reader.onload.
TimerFires ==
    /\ job.phase = "timer"
    /\ data' = job.fullData
    /\ status' = "review"
    /\ job' = NoJob
    /\ UNCHANGED <<hostZone, error, leadTimeSettings, auditLog, nOps, callVars>>

\* DataEditor's text inputs and the mandatory-visit checkbox.
EditText ==
    /\ UserOp
    /\ status = "review" /\ data # NULL
    /\ \E edit \in { <<"projectName", Str("Renamed Project")>>,
                     <<"bidBondRequirement", Str("")>>,
                     <<"bidBondRequirement", Str("5% of bid")>>,
                     <<"isSiteVisitMandatory", Bool(TRUE)>> } :
          updateField(edit[1], edit[2])
    /\ UNCHANGED <<hostZone, status, error, leadTimeSettings, job, callVars>>

\* DataEditor.handleDateChange, for the anchor inputs and the internal
\* milestone inputs.
\* The body of DataEditor.handleDateChange(field, rawValue).
DateChange(field, rawValue) ==
    IF ~Truthy(rawValue) THEN updateField(field, NULL)
    ELSE IF DateParse(hostZone, rawValue).kind # "NaN"
         THEN updateField(field, toISOString(DateParse(hostZone, rawValue)))
         ELSE UNCHANGED <<data, auditLog>>

HandleDateChange ==
    /\ UserOp
    /\ status = "review" /\ data # NULL
    /\ \E field \in AnchorFields \cup InternalFields, rawValue \in EditDateArgs :
          DateChange(field, rawValue)
    /\ UNCHANGED <<hostZone, status, error, leadTimeSettings, job, callVars>>

\* handleLeadTimeChange storing every value parseInt can read, negative or not.
LeadTimeChange_NoSignCheck(key, value) ==
    IF parseInt(value).kind # "NaN"
    THEN /\ leadTimeSettings' =
                setLeadTimeSettings(leadTimeSettings, [k \in {key} |-> parseInt(value).n])
         /\ recalculateInternalEvents(leadTimeSettings')
    ELSE UNCHANGED <<leadTimeSettings, data>>

\* The body of SettingsModal.handleLeadTimeChange(key, value).
LeadTimeChange(key, value) ==
    IF parseInt(value).kind # "NaN" /\ parseInt(value).n >= 0
    THEN /\ leadTimeSettings' =
                setLeadTimeSettings(leadTimeSettings, [k \in {key} |-> parseInt(value).n])
         /\ recalculateInternalEvents(leadTimeSettings')
    ELSE UNCHANGED <<leadTimeSettings, data>>

\* SettingsModal.handleLeadTimeChange.
HandleLeadTimeChange ==
    /\ UserOp
    /\ \E key \in LeadTimeKeys, value \in LeadTimeInputs : LeadTimeChange(key, value)
    /\ UNCHANGED <<hostZone, status, error, auditLog, job, callVars>>

\* SettingsModal.handleResetLeadTimes.
HandleResetLeadTimes ==
    /\ UserOp
    /\ leadTimeSettings' = setLeadTimeSettings(leadTimeSettings, DEFAULT_LEAD_TIMES)
    /\ recalculateInternalEvents(leadTimeSettings')
    /\ UNCHANGED <<hostZone, status, error, auditLog, job, callVars>>

Next ==
    \/ HandleManualEntry
    \/ HandleBackToIdle
    \/ HandleRetry
    \/ HandleSubmit
    \/ HandleFileSelect
    \/ ReaderOnload
    \/ ExtractionResolves
    \/ ExtractionRejects
    \/ TimerFires
    \/ EditText
    \/ HandleDateChange
    \/ HandleLeadTimeChange
    \/ HandleResetLeadTimes

Spec == Init /\ [][Next]_vars

\* What internal deadline f is when it is derived from the record's anchor and
\* the given settings.
Derived(rec, settings, f) ==
    getDeadlineBefore(OrElse(rec[AnchorOf(f)], NULL), settings[LeadKeyOf(f)])

\* C1: whenever a record is loaded, each internal deadline equals
\* getDeadlineBefore(its anchor, its configured lead days), and is null exactly
\* when that anchor is null or unparseable.
C1_DerivedFromAnchors ==
    data # NULL =>
        \A f \in InternalFields :
            /\ data[f] = Derived(data, leadTimeSettings, f)
            /\ data[f] = NULL <=> BadDate(data[AnchorOf(f)])

\* The step is an updateField on one of the two anchors that wrote the store.
AnchorEditStep ==
    /\ auditLog'.len = auditLog.len + 1
    /\ auditLog'.last.action = "edit"
    /\ auditLog'.last.details.field \in {"bidDueDate", "rfiDueDate"}

\* C2: the state written by updateField on bidDueDate or rfiDueDate holds the
\* new anchor together with all six internal deadlines recomputed from the new
\* anchors and the current lead-time settings.
C2_AnchorEditRecomputes ==
    [][AnchorEditStep =>
          /\ data'[auditLog'.last.details.field] = auditLog'.last.details.value
          /\ leadTimeSettings' = leadTimeSettings
          /\ \A f \in InternalFields : data'[f] = Derived(data', leadTimeSettings, f)]_vars

\* C2: the bid-due date of a manually entered record was edited; the record
\* holds the edited anchor and a bond-request deadline five days before it.
C2_Witness ==
    /\ data # NULL
    /\ auditLog.last # NULL
    /\ auditLog.last.action = "edit"
    /\ auditLog.last.details.field = "bidDueDate"
    /\ auditLog.last.details.value = toISOString(DateParse(hostZone, LocalStr(2025, 2, 3, 9, 0)))
    /\ data.bidDueDate = auditLog.last.details.value
    /\ leadTimeSettings = DEFAULT_LEAD_TIMES
    /\ data.bondRequestDeadline = toISOString(DateParse(hostZone, LocalStr(2025, 1, 29, 9, 0)))

\* C5: a step that changes the lead-time settings while a record is loaded
\* leaves each internal deadline equal to getDeadlineBefore(anchor, new lead days).
C5_RecomputedWithNewSettings ==
    [][(data # NULL /\ leadTimeSettings' # leadTimeSettings) =>
          \A f \in InternalFields : data'[f] = Derived(data', leadTimeSettings', f)]_vars

\* C6: a step that changes exactly one lead-time value while a record is loaded
\* moves the internal deadline using that value to the new number of days
\* before its anchor and leaves every other field of the record as it was.
C6_OnlyOneDeadlineMoves ==
    [][(data # NULL /\ Cardinality({k \in LeadTimeKeys : leadTimeSettings'[k] # leadTimeSettings[k]}) = 1) =>
          \A f \in DataFields :
              IF f \in InternalFields /\ leadTimeSettings'[LeadKeyOf(f)] # leadTimeSettings[LeadKeyOf(f)]
              THEN data'[f] = Derived(data, leadTimeSettings', f)
              ELSE data'[f] = data[f]]_vars

(***************************************************************************)
(* The settings modal on its own: each lead-time edit is kept in arg, and  *)
(* ret tells which handler ran last                                        *)
(***************************************************************************)
\* The texts tried in a lead-time input: those above, and a negative fraction.
SettingsInputs == LeadTimeInputs \cup { <<"-", "0", ".", "5">> }

\* handleLeadTimeChange(key, value), the call being recorded.
EditLeadTime ==
    /\ UserOp
    /\ \E key \in LeadTimeKeys, value \in SettingsInputs :
          /\ LeadTimeChange(key, value)
          /\ arg' = [value |-> value]
    /\ ret' = Returned("handleLeadTimeChange", nOps')
    /\ UNCHANGED <<hostZone, status, error, auditLog, job>>

\* handleResetLeadTimes, the call being recorded.
ResetLeadTimes ==
    /\ UserOp
    /\ leadTimeSettings' = setLeadTimeSettings(leadTimeSettings, DEFAULT_LEAD_TIMES)
    /\ recalculateInternalEvents(leadTimeSettings')
    /\ ret' = Returned("handleResetLeadTimes", nOps')
    /\ UNCHANGED <<hostZone, status, error, auditLog, job, arg>>

NextSettings ==
    \/ HandleManualEntry
    \/ HandleSubmit
    \/ EditLeadTime
    \/ ResetLeadTimes

SpecSettings == Init /\ [][NextSettings]_vars

\* The text is a decimal numeral: an optional sign, digits, at most one point.
IsDecimal(chars) ==
    /\ \E i \in 1..Len(chars) : chars[i] \in Digits
    /\ \A i \in 1..Len(chars) :
          chars[i] \in Digits \cup {"."} \/ (i = 1 /\ chars[i] \in {"-", "+"})
    /\ Cardinality({i \in 1..Len(chars) : chars[i] = "."}) <= 1

\* The text is a decimal numeral below zero.
IsNegative(chars) ==
    /\ IsDecimal(chars)
    /\ chars[1] = "-"
    /\ \E i \in 1..Len(chars) : chars[i] \in Digits \ {"0"}

\* This step is a handleLeadTimeChange call.
EditStep == ret' # ret /\ ret'.fn = "handleLeadTimeChange"

AllLeadTimesNatural(settings) == \A k \in LeadTimeKeys : settings[k] \in Nat

\* C18 (as claimed): after every edit and reset the six lead-time values are
\* non-negative integers, and an edit whose value is negative or non-numeric
\* leaves the lead-time settings and the loaded record unchanged.
C18_RejectsNegativeAndNonNumeric ==
    [][ /\ AllLeadTimesNatural(leadTimeSettings')
        /\ (EditStep /\ (IsNegative(arg'.value) \/ ~IsDecimal(arg'.value)))
              => UNCHANGED <<leadTimeSettings, data>> ]_vars

\* C18 (amended): after every edit and reset the six lead-time values are
\* non-negative integers; an edit is rejected, leaving settings and record
\* unchanged, when parseInt reads no number from the text or reads a negative
\* one.  (The integer part is what counts: -0.5 is read as 0 and accepted.)
C18_RejectsUnreadableAndBelowZero ==
    [][ /\ AllLeadTimesNatural(leadTimeSettings')
        /\ (EditStep /\ (parseInt(arg'.value).kind = "NaN" \/ parseInt(arg'.value).n < 0))
              => UNCHANGED <<leadTimeSettings, data>> ]_vars

\* C18: with a record loaded, the last edit was -3 and was rejected after an
\* earlier edit had been accepted.
C18_Witness ==
    /\ ret.fn = "handleLeadTimeChange"
    /\ arg = [value |-> <<"-", "3">>]
    /\ data # NULL
    /\ leadTimeSettings # DEFAULT_LEAD_TIMES
    /\ AllLeadTimesNatural(leadTimeSettings)

(***************************************************************************)
(* withRetry (services/googleCalendar.ts)                                  *)
(***************************************************************************)
MAX_RETRIES == 4

BASE_DELAY == 2000

\* maxRetries values tried besides the default: 0..MaxRetriesArg.
MaxRetriesArg == 5

\* The wrapped call is never invoked more often than this.
MaxCalls == MaxRetriesArg + 2

\* Errors the wrapped call rejects with: retryable ones (network, rate limit,
\* extraction, unknown) and ones that are not (API authentication, invalid
\* document).
RetryErrorArgs ==
    ErrorArgs \cup
    { Err("429 quota exceeded", {"429", "quota"}),
      Err("API key not valid", {"api"}),
      Err("403 Forbidden", {"403"}),
      Err("Cannot read document: file is corrupt", {"cannot read", "corrupt"}) }

ResultArgs == {Str("first"), Str("second")}

\* withRetry(fn, maxRetries = MAX_RETRIES, onRetry?): maxRetries given or
\* left out, onRetry given or not.
RetryArgs ==
    [maxRetries : {UNDEFINED} \cup {Num(n) : n \in 0..MaxRetriesArg}, onRetry : BOOLEAN]

\* The parameter maxRetries with its default.
MaxRetriesOf(a) == IF a.maxRetries = UNDEFINED THEN MAX_RETRIES ELSE a.maxRetries.n

\* The catch block rethrowing only when the attempts are used up, whatever
\* classifyError says.
ShouldRethrow_OnlyWhenExhausted(e, attempt, maxRetries) ==
    attempt = maxRetries

\* !classifiedError.retryable || attempt === maxRetries
ShouldRethrow(e, attempt, maxRetries) ==
    ~classifyError(e).retryable \/ attempt = maxRetries

\* A delay that grows by BASE_DELAY per attempt instead of doubling.
BackoffDelay_Linear(attempt) == BASE_DELAY * (attempt + 1)

\* BASE_DELAY * Math.pow(2, attempt)
BackoffDelay(attempt) == BASE_DELAY * 2^attempt

\* A loop that forgets attempt++.
NextAttempt_Stuck(attempt) == attempt

\* attempt++ of the for loop.
NextAttempt(attempt) == attempt + 1

InitRetry ==
    /\ hostZone \in StoreZones
    /\ initialState
    /\ arg \in RetryArgs
    /\ ret = NoCall

\* withRetry is called: attempt = 0 passes the loop test and fn() is invoked.
CallWithRetry ==
    /\ job = NoJob
    /\ ret = NoCall
    /\ job' = [phase |-> "await", attempt |-> 0, calls |-> 1, lastError |-> UNDEFINED,
               errors |-> <<>>, retries |-> <<>>, delays |-> <<>>]
    /\ UNCHANGED <<hostZone, status, data, error, leadTimeSettings, auditLog, nOps, callVars>>

\* The promise of fn() is fulfilled: return await fn().
AttemptResolves ==
    /\ job # NoJob /\ job.phase = "await"
    /\ \E result \in ResultArgs : ret' = Returned("withRetry", result)
    /\ job' = [job EXCEPT !.phase = "done"]
    /\ UNCHANGED <<hostZone, status, data, error, leadTimeSettings, auditLog, nOps, arg>>

\* The promise of fn() is rejected: the catch block, up to throw error or up
\* to await sleep(delay).
AttemptRejects ==
    /\ job # NoJob /\ job.phase = "await"
    /\ \E e \in RetryErrorArgs :
          IF ShouldRethrow(e, job.attempt, MaxRetriesOf(arg))
          THEN /\ ret' = Returned("withRetry", Throw(e))
               /\ job' = [job EXCEPT !.phase = "done", !.lastError = e,
                                     !.errors = Append(@, e)]
          ELSE /\ ret' = ret
               /\ job' = [job EXCEPT
                            !.phase = "sleep", !.lastError = e, !.errors = Append(@, e),
                            !.retries = IF arg.onRetry
                                        THEN Append(@, <<job.attempt + 1,
                                                         BackoffDelay(job.attempt)>>)
                                        ELSE @,
                            !.delays = Append(@, BackoffDelay(job.attempt))]
    /\ UNCHANGED <<hostZone, status, data, error, leadTimeSettings, auditLog, nOps, arg>>

\* The timer of sleep(delay) fires: attempt++, the loop test, and either the
\* next fn() or, past the loop, throw lastError.
SleepResolves ==
    /\ job # NoJob /\ job.phase = "sleep"
    /\ job.calls < MaxCalls
    /\ IF NextAttempt(job.attempt) <= MaxRetriesOf(arg)
       THEN /\ job' = [job EXCEPT !.phase = "await", !.attempt = NextAttempt(@),
                                  !.calls = @ + 1]
            /\ ret' = ret
       ELSE /\ job' = [job EXCEPT !.phase = "done", !.attempt = NextAttempt(@)]
            /\ ret' = Returned("withRetry", Throw(job.lastError))
    /\ UNCHANGED <<hostZone, status, data, error, leadTimeSettings, auditLog, nOps, arg>>

NextRetry ==
    \/ CallWithRetry
    \/ AttemptResolves
    \/ AttemptRejects
    \/ SleepResolves

SpecRetry == InitRetry /\ [][NextRetry]_vars

\* Every call is made, every attempt settles one way or the other, and every
\* timer fires.
SpecRetryFair ==
    /\ SpecRetry
    /\ WF_vars(CallWithRetry)
    /\ WF_vars(AttemptResolves \/ AttemptRejects)
    /\ WF_vars(SleepResolves)

\* What holds of withRetry at every moment: fn was invoked at most
\* maxRetries + 1 times (5 with the default), and once withRetry has settled
\* it has either returned the result of an attempt that succeeded, all earlier
\* attempts having failed, or thrown the error of the last attempt.
RetryBounded ==
    job # NoJob =>
        /\ job.calls <= MaxRetriesOf(arg) + 1
        /\ arg.maxRetries = UNDEFINED => job.calls <= 5
        /\ job.phase = "done" =>
              /\ ret.fn = "withRetry"
              /\ IF IsThrow(ret.val)
                 THEN /\ Len(job.errors) = job.calls
                      /\ ret.val = Throw(job.errors[job.calls])
                 ELSE /\ ret.val \in ResultArgs
                      /\ Len(job.errors) = job.calls - 1

\* C19: withRetry terminates, the attempts settling and the timers firing,
\* after at most maxRetries + 1 invocations of the wrapped call (5 with the
\* default): it returns the result of the first successful attempt or
\* rethrows the error of the last attempt.
C19_TerminatesWithinMaxRetries ==
    /\ []RetryBounded
    /\ <>(job # NoJob /\ job.phase = "done")

\* C19: the default maxRetries was used, four attempts failed and were
\* retried, and the fifth failed too: its error was rethrown.
C19_Witness ==
    /\ job # NoJob
    /\ job.phase = "done"
    /\ arg.maxRetries = UNDEFINED
    /\ job.calls = 5
    /\ Len(job.delays) = 4
    /\ IsThrow(ret.val)
    /\ classifyError(ret.val.err).retryable

\* C20: an attempt that fails with an error classifyError marks non-retryable
\* (api_error, invalid_document) ends withRetry at once with that error: it
\* is the last attempt, and onRetry was called and a delay was waited only
\* for the failures before it; every failure followed by another attempt or
\* by a delay was a retryable one.
C20_NonRetryableRethrownAtOnce ==
    job # NoJob =>
        \A i \in 1..Len(job.errors) :
            IF classifyError(job.errors[i]).retryable
            THEN classifyError(job.errors[i]).type
                    \in {"network_error", "rate_limit", "extraction_failed", "unknown"}
            ELSE /\ classifyError(job.errors[i]).type \in {"api_error", "invalid_document"}
                 /\ i = Len(job.errors)
                 /\ job.calls = i
                 /\ job.phase = "done"
                 /\ ret = Returned("withRetry", Throw(job.errors[i]))
                 /\ Len(job.delays) = i - 1
                 /\ Len(job.retries) = IF arg.onRetry THEN i - 1 ELSE 0

\* C20: two attempts failed with retryable errors and were retried with
\* onRetry called, and the third failed with an API-authentication error,
\* which was rethrown with attempts left.
C20_Witness ==
    /\ job # NoJob
    /\ job.phase = "done"
    /\ arg.onRetry
    /\ MaxRetriesOf(arg) = 4
    /\ job.calls = 3
    /\ ret = Returned("withRetry", Throw(Err("API key not valid", {"api"})))
    /\ job.retries = << <<1, 2000>>, <<2, 4000>> >>
    /\ job.delays = <<2000, 4000>>

\* C21: before the k-th retry onRetry(k, d) is called, once, and withRetry
\* then waits d = 2000 * 2^(k-1) ms; the wrapped call is invoked again only by
\* the step in which that wait ends, so attempt k + 1 has k finished waits
\* before it.
C21_BackoffBeforeEachRetry ==
    [][ job' # NoJob =>
          /\ Len(job'.delays) <= MaxRetriesOf(arg)
          /\ \A k \in 1..Len(job'.delays) : job'.delays[k] = 2000 * 2^(k - 1)
          /\ arg.onRetry =>
                job'.retries = [k \in 1..Len(job'.delays) |-> <<k, job'.delays[k]>>]
          /\ job'.phase = "sleep" => job'.calls = Len(job'.delays)
          /\ job'.phase = "await" => job'.calls = Len(job'.delays) + 1
          /\ (job # NoJob /\ job'.calls > job.calls) =>
                /\ job.phase = "sleep"
                /\ job'.calls = job.calls + 1
                /\ job'.delays = job.delays
                /\ job'.retries = job.retries ]_vars

\* C21: with the default maxRetries and onRetry given, the fifth attempt is
\* running after waits of 2, 4, 8 and 16 seconds, each announced by onRetry.
C21_Witness ==
    /\ job # NoJob
    /\ job.phase = "await"
    /\ arg.maxRetries = UNDEFINED
    /\ arg.onRetry
    /\ job.calls = 5
    /\ job.delays = <<2000, 4000, 8000, 16000>>
    /\ job.retries = << <<1, 2000>>, <<2, 4000>>, <<3, 8000>>, <<4, 16000>> >>

(***************************************************************************)
(* The extraction flow of App.handleFileSelect                             *)
(***************************************************************************)
\* The records an extraction can leave: extracted data with the deadlines
\* calculateInternalEvents derives from them under some lead-time settings.
ExtractedWithDeadlines(settingsSet) ==
    { calculateInternalEvents(e, st) : e \in ExtractedArgs, st \in settingsSet }

C24_StoredWithCurrentLeadTimes ==
    [][(status = "processing" /\ status' = "review") =>
          \A f \in InternalFields : data'[f] = Derived(data', leadTimeSettings', f)]_vars

\* C27: whenever status is 'review' a project record is loaded, after any
\* sequence of file uploads, manual entries, retries, returns to idle and
\* field edits.
C27_ReviewHasRecord == status = "review" => data # NULL

\* C27: a record entered by hand is under review and one of its dates has been
\* cleared in the editor.
C27_Witness ==
    /\ status = "review"
    /\ data # NULL
    /\ data.projectName = Str("Manual Project")
    /\ auditLog.last.action = "edit"
    /\ data.bidDueDate = NULL

(***************************************************************************)
(* The date inputs of the DataEditor                                       *)
(***************************************************************************)
\* The value attribute of a date input: the first 16 characters of the stored
\* string, "" when nothing is stored.  Of "YYYY-MM-DDTHH:mm:ss.sssZ" these
\* are "YYYY-MM-DDTHH:mm".
InputValue(v) ==
    IF ~Truthy(v) THEN Str("")
    ELSE IF v.kind = "iso" THEN LocalStr(v.Y, v.M, v.D, v.h, v.mi)
    ELSE v

InitEditor ==
    /\ hostZone \in Zones
    /\ initialState
    /\ arg = NULL
    /\ ret = NoCall

\* The user types into a date input the value it already shows.
ReenterShownDate ==
    /\ UserOp
    /\ status = "review" /\ data # NULL
    /\ \E field \in AnchorFields \cup InternalFields :
          /\ DateChange(field, InputValue(data[field]))
          /\ arg' = [field |-> field, stored |-> data[field], rawValue |-> InputValue(data[field])]
          /\ ret' = Returned("handleDateChange", nOps')
    /\ UNCHANGED <<hostZone, status, error, leadTimeSettings, job>>

NextEditor == HandleManualEntry \/ HandleSubmit \/ ReenterShownDate

SpecEditor == InitEditor /\ [][NextEditor]_vars

\* C26: after the value shown for a stored date has been fed back through
\* handleDateChange, the field holds the same instant as before, in every
\* host time zone; an empty input stores null.
C26_ShownValueRoundTrips ==
    (ret.fn = "handleDateChange" /\ ret.val = nOps) =>
        IF Truthy(arg.stored)
        THEN DateParse(hostZone, data[arg.field]) = DateParse(hostZone, arg.stored)
        ELSE data[arg.field] = NULL

(***************************************************************************)
(* Google Calendar sync (services/googleCalendar.ts)                       *)
(***************************************************************************)
\* buildReminders: one popup override per enabled reminder option.
buildReminders(options) ==
    LET pick(on, minutes) == IF on THEN <<[method |-> "popup", minutes |-> minutes]>> ELSE <<>>
        overrides == pick(options.reminders.oneHour, 60) \o pick(options.reminders.oneDay, 1440)
                     \o pick(options.reminders.threeDays, 4320)
                     \o pick(options.reminders.oneWeek, 10080)
    IN  [useDefault |-> overrides = <<>>, overrides |-> overrides]

\* The events array of syncProjectToCalendar: an entry is pushed for every
\* truthy date, the internal ones only with options.includeInternal.  Every
\* description is a fixed text about the same record and is not kept here.
SyncEventList(rec, options) ==
    LET name == Interp(rec.projectName)
        ev(label, start, location) ==
            [summary |-> <<label>> \o name, start |-> start, location |-> location,
             reminders |-> buildReminders(options)]
    IN  SelectSeq(
          << ev("[BID DUE] ", rec.bidDueDate, rec.projectAddress),
             ev("[RFI DUE] ", rec.rfiDueDate, rec.projectAddress),
             ev(IF Truthy(rec.isSiteVisitMandatory) THEN "[MANDATORY SITE VISIT] "
                ELSE "[SITE VISIT] ", rec.siteVisitDate, rec.projectAddress),
             ev("[RSVP] Site Visit: ", rec.rsvpDeadline, UNDEFINED) >>
          \o (IF options.includeInternal
              THEN << ev("[INTERNAL] Scope Review: ", rec.scopeReviewDeadline, UNDEFINED),
                      ev("[INTERNAL] Sub Bids Due: ", rec.subcontractorBidDeadline, UNDEFINED),
                      ev("[INTERNAL] Bond Request: ", rec.bondRequestDeadline, UNDEFINED),
                      ev("[INTERNAL] Addendum Check: ", rec.addendumCheckDeadline, UNDEFINED),
                      ev("[INTERNAL] Finalize RFIs: ", rec.finalizeRfiDeadline, UNDEFINED),
                      ev("[INTERNAL] Final Prep: ", rec.finalizeBidPackageDeadline, UNDEFINED) >>
              ELSE <<>>),
          LAMBDA e : Truthy(e.start))

\* createEvent waiting for events.insert.
Pending == [pending |-> TRUE]

\* createEvent up to its await: the failure it returns without a request when
\* there is no token, the failure its catch returns when toISOString throws
\* while the request is put together, and otherwise the request in flight.
createEvent(token, event) ==
    LET startDate == DateParse(hostZone, event.start)
        endDate   == AddMs(startDate, ONE_HOUR)
    IN  IF ~token THEN [success |-> FALSE, error |-> Str("Not authenticated")]
        ELSE IF IsThrow(toISOString(startDate)) \/ IsThrow(toISOString(endDate))
             THEN [success |-> FALSE, error |-> Str("Invalid time value")]
             ELSE Pending

\* The loop body after createEvent has settled, leaving the loop at the
\* first failure.
Counted_StopOnFailure(j, result) ==
    IF result.success THEN [j EXCEPT !.created = @ + 1, !.phase = "delay"]
    ELSE [j EXCEPT !.failed = @ + 1,
                   !.errors = Append(@, [summary |-> j.events[j.i].summary,
                                         error |-> result.error]),
                   !.phase = "returned"]

\* The loop body after createEvent has settled: the result is counted and the
\* 200 ms delay is awaited.
Counted(j, result) ==
    IF result.success THEN [j EXCEPT !.created = @ + 1, !.phase = "delay"]
    ELSE [j EXCEPT !.failed = @ + 1,
                   !.errors = Append(@, [summary |-> j.events[j.i].summary,
                                         error |-> result.error]),
                   !.phase = "delay"]

\* The loop from its test for index i (counted from 1) to the next await, or
\* to the return statement.
Iterate(j, i) ==
    IF i > Len(j.events) THEN [j EXCEPT !.phase = "returned"]
    ELSE IF createEvent(j.token, j.events[i]) = Pending
         THEN [j EXCEPT !.i = i, !.calls = Append(@, i), !.phase = "insert"]
         ELSE Counted([j EXCEPT !.i = i, !.calls = Append(@, i)],
                      createEvent(j.token, j.events[i]))

\* The value syncProjectToCalendar returns after the loop.
SyncResult(j) ==
    [success |-> j.failed = 0, created |-> j.created, failed |-> j.failed, errors |-> j.errors]

\* The value returned without a token.
NotAuthenticated ==
    [success |-> FALSE, created |-> 0, failed |-> 0, errors |-> <<Str("Not authenticated")>>]

\* A page on which gapi is initialized, with or without a token.
ReadyJob(token) ==
    [phase |-> "ready", token |-> token, authed |-> FALSE, events |-> <<>>, i |-> 0,
     created |-> 0, failed |-> 0, errors |-> <<>>, calls |-> <<>>]

\* Records with their derived deadlines: readable anchors, an anchor new Date()
\* cannot read, and an anchor at the last instant a Date can hold.
SyncRecordArgs ==
    { calculateInternalEvents(
          [BaseRecord EXCEPT !.bidDueDate = bid, !.rfiDueDate = rfi, !.siteVisitDate = site],
          DEFAULT_LEAD_TIMES) :
        bid  \in {NULL, IsoStr(2025, 1, 15, 17, 0, 0, 0), Str("not-a-date")},
        rfi  \in {NULL, IsoStr(2025, 1, 10, 17, 0, 0, 0)},
        site \in {NULL, toISOString(Tv(MaxDay, 0))} }

\* events.insert rejecting with and without a message.
InsertErrorArgs == {[message |-> Str("Rate Limit Exceeded")], [message |-> UNDEFINED]}

\* A record under review, with a call of syncProjectToCalendar on it to come.
InitSync ==
    /\ hostZone \in StoreZones
    /\ status = "review" /\ error = NULL
    /\ leadTimeSettings = DEFAULT_LEAD_TIMES
    /\ auditLog = [len |-> 0, last |-> NULL]
    /\ nOps = 0
    /\ job \in {ReadyJob(token) : token \in BOOLEAN}
    /\ arg \in [rec : SyncRecordArgs, options : OptionsArgs]
    /\ data = arg.rec
    /\ ret = NoCall

\* The job moves to j; when j has reached the return statement the result is
\* returned.
SyncMovesTo(j) ==
    /\ job' = j
    /\ ret' = IF j.phase = "returned"
              THEN Returned("syncProjectToCalendar", SyncResult(j)) ELSE ret
    /\ UNCHANGED <<hostZone, status, data, error, leadTimeSettings, auditLog, nOps, arg>>

\* syncProjectToCalendar is called: up to its first await or its return.
CallSyncProject ==
    /\ job.phase = "ready"
    /\ IF ~job.token
       THEN /\ job' = [job EXCEPT !.phase = "returned"]
            /\ ret' = Returned("syncProjectToCalendar", NotAuthenticated)
            /\ UNCHANGED <<hostZone, status, data, error, leadTimeSettings, auditLog, nOps, arg>>
       ELSE SyncMovesTo(Iterate([job EXCEPT !.authed = TRUE,
                                            !.events = SyncEventList(arg.rec, arg.options)], 1))

\* events.insert resolves.
InsertResolves ==
    /\ job.phase = "insert"
    /\ SyncMovesTo(Counted(job, [success |-> TRUE]))

\* events.insert rejects: the catch of createEvent returns the failure.
InsertRejects ==
    /\ job.phase = "insert"
    /\ \E e \in InsertErrorArgs :
          SyncMovesTo(Counted(job, [success |-> FALSE,
                                    error |-> IF Truthy(e.message) THEN e.message
                                              ELSE Str("Failed to create event")]))

\* The 200 ms timer fires.
DelayElapses ==
    /\ job.phase = "delay"
    /\ SyncMovesTo(Iterate(job, job.i + 1))

\* revokeAccess while the sync is running.
RevokeAccess ==
    /\ job.phase \in {"insert", "delay"}
    /\ job.token
    /\ job' = [job EXCEPT !.token = FALSE]
    /\ UNCHANGED <<hostZone, status, data, error, leadTimeSettings, auditLog, nOps, callVars>>

NextSync == CallSyncProject \/ InsertResolves \/ InsertRejects \/ DelayElapses \/ RevokeAccess

SpecSync == InitSync /\ [][NextSync]_vars

\* createEvent has been called for the events 1, 2, ... in list order, and at
\* most the last of these calls has not settled.
OneCallAtATime ==
    /\ job.calls = [k \in 1..Len(job.calls) |-> k]
    /\ Len(job.calls) - (job.created + job.failed) = (IF job.phase = "insert" THEN 1 ELSE 0)

\* C23 (as claimed): on return created + failed equals the number of events
\* with a date, and success is true if and only if failed = 0.
C23_CountsAddUpOnReturn ==
    ret.fn = "syncProjectToCalendar" =>
        /\ ret.val.created + ret.val.failed = Len(SyncEventList(arg.rec, arg.options))
        /\ ret.val.success <=> (ret.val.failed = 0)

\* C23 (amended): a call made with a token issues one createEvent call per
\* event with a date, in list order, each call after the previous one has
\* settled and the delay has passed; a failed call does not stop the others,
\* and on return created + failed is the number of events and success is true
\* if and only if failed = 0.  A call made without a token calls createEvent
\* for nothing and returns success = false with created = failed = 0.
C23_SerialCallsAndCounts ==
    /\ [](OneCallAtATime
          /\ (ret.fn = "syncProjectToCalendar" =>
                IF job.authed
                THEN /\ Len(job.calls) = Len(SyncEventList(arg.rec, arg.options))
                     /\ ret.val.created + ret.val.failed = Len(job.calls)
                     /\ ret.val.success <=> (ret.val.failed = 0)
                ELSE job.calls = <<>> /\ ret.val = NotAuthenticated))
    /\ [][job'.calls # job.calls => job.phase \in {"ready", "delay"}]_vars

\* C23: the first of eight calls failed and the seven after it were made and
\* succeeded.
C23_Witness ==
    /\ ret.fn = "syncProjectToCalendar"
    /\ job.authed
    /\ Len(job.calls) = 8
    /\ ret.val.failed = 1
    /\ ret.val.created = 7
    /\ ret.val.errors[1].summary = <<"[BID DUE] ", "Test Project">>
    /\ ~ret.val.success

\* The compact UTC form of the instant of a date, NaN for a date new Date()
\* cannot read.
InstantOf(date) ==
    IF DateParse(hostZone, date).kind = "NaN" THEN NaN
    ELSE CompactUTC(toISOString(DateParse(hostZone, date)))

\* The values of a sequence.
Range(seq) == {seq[i] : i \in 1..Len(seq)}

\* The instants of a list of entries, each taken from the date field named.
ListedInstants(list) == {InstantOf(list[i].date) : i \in 1..Len(list)}

UploadedInstants(events) == {InstantOf(events[i].start) : i \in 1..Len(events)}

\* C25: the milestones getMilestones lists, the VEVENTs generateICS writes and
\* the events syncProjectToCalendar uploads for the same record and options
\* correspond one to one: as many of each, at the same instants.
C25_ListedIffExported ==
    job.authed =>
        LET starts == ValuesOf(generateICS(arg.rec, arg.options,
                                           [k \in 1..10 |-> Tv(0, 0)],
                                           [k \in 1..10 |-> k]).lines, "DTSTART")
        IN  \A list \in getMilestones(arg.rec, arg.options.includeInternal) :
               /\ Len(list) = Len(starts)
               /\ Len(list) = Len(job.events)
               /\ ListedInstants(list) = Range(starts)
               /\ ListedInstants(list) = UploadedInstants(job.events)

(***************************************************************************)
(* Chat (components/ChatSidebar.tsx)                                       *)
(***************************************************************************)
\* String.prototype.trim on a string given character by character.
RECURSIVE TrimStart(_)
TrimStart(chars) ==
    IF chars # <<>> /\ Head(chars) = " " THEN TrimStart(Tail(chars)) ELSE chars

RECURSIVE TrimEnd(_)
TrimEnd(chars) ==
    IF chars # <<>> /\ chars[Len(chars)] = " "
    THEN TrimEnd(SubSeq(chars, 1, Len(chars) - 1)) ELSE chars

Trim(chars) == TrimEnd(TrimStart(chars))

\* What the input holds when a message is sent.
ChatInputArgs == {<<>>, <<" ", " ">>, <<" ", "D", "u", "e", "?", " ">>}

\* The message argument: absent, or a suggested question.
ChatMessageArgs == {<<>>, <<"B", "o", "n", "d", "?">>}

\* What askAssistant resolves with.
ChatResponseArgs == {<<"Y", "e", "s">>}

ChatErrorText == <<"Error communicating with AI assistant. Please try again.">>

\* The chat with or without an uploaded file; messages keep their role and
\* text.
ReadyChat(hasFile) ==
    [phase |-> "chat", hasFile |-> hasFile, chatMessages |-> <<>>,
     isAssistantThinking |-> FALSE, inFlight |-> 0]

\* handleSendChat after askAssistant has settled, without its finally block.
ChatSettled_NoFinally(j, role, text) ==
    [j EXCEPT !.chatMessages = Append(@, [role |-> role, text |-> text]),
              !.inFlight = @ - 1]

\* handleSendChat after askAssistant has settled: the assistant message is
\* added and the finally block clears isAssistantThinking.
ChatSettled(j, role, text) ==
    [j EXCEPT !.chatMessages = Append(@, [role |-> role, text |-> text]),
              !.isAssistantThinking = FALSE,
              !.inFlight = @ - 1]

InitChat ==
    /\ hostZone \in StoreZones
    /\ status = "review" /\ error = NULL
    /\ data = calculateInternalEvents(BaseRecord, DEFAULT_LEAD_TIMES)
    /\ leadTimeSettings = DEFAULT_LEAD_TIMES
    /\ auditLog = [len |-> 0, last |-> NULL]
    /\ nOps = 0
    /\ job \in {ReadyChat(hasFile) : hasFile \in BOOLEAN}
    /\ arg = NULL
    /\ ret = NoCall

\* handleSendChat(message) up to its await; a call that returns at the guard
\* changes nothing but is recorded in ret.
HandleSendChat ==
    /\ UserOp
    /\ \E message \in ChatMessageArgs, chatInput \in ChatInputArgs :
          LET userMsg == IF message # <<>> THEN message ELSE Trim(chatInput)
          IN  IF userMsg = <<>> \/ ~job.hasFile \/ job.isAssistantThinking
              THEN /\ ret' = Returned("handleSendChat", [accepted |-> FALSE, n |-> nOps'])
                   /\ UNCHANGED <<job, auditLog>>
              ELSE /\ job' = [job EXCEPT
                                !.chatMessages = Append(@, [role |-> "user", text |-> userMsg]),
                                !.isAssistantThinking = TRUE,
                                !.inFlight = @ + 1]
                   /\ auditLog' = addAuditLog(auditLog,
                          [action |-> "chat", details |-> [userMessage |-> userMsg]])
                   /\ ret' = Returned("handleSendChat", [accepted |-> TRUE, n |-> nOps'])
    /\ UNCHANGED <<hostZone, status, data, error, leadTimeSettings, arg>>

\* askAssistant resolves.
AskResolves ==
    /\ job.inFlight > 0
    /\ \E response \in ChatResponseArgs : job' = ChatSettled(job, "assistant", response)
    /\ UNCHANGED <<hostZone, status, data, error, leadTimeSettings, auditLog, nOps, callVars>>

\* askAssistant rejects.
AskRejects ==
    /\ job.inFlight > 0
    /\ job' = ChatSettled(job, "assistant", ChatErrorText)
    /\ UNCHANGED <<hostZone, status, data, error, leadTimeSettings, auditLog, nOps, callVars>>

NextChat == HandleSendChat \/ AskResolves \/ AskRejects

SpecChat == InitChat /\ [][NextChat]_vars

\* The request in flight settles in the end.
SpecChatFair == SpecChat /\ WF_vars(AskResolves \/ AskRejects)

\* The messages alternate: user, assistant, user, ..., and the last user
\* message is without its answer exactly while a request is in flight.
Alternating ==
    /\ \A i \in 1..Len(job.chatMessages) :
          job.chatMessages[i].role = (IF i % 2 = 1 THEN "user" ELSE "assistant")
    /\ Len(job.chatMessages) % 2 = job.inFlight

\* C28: at most one askAssistant request is in flight at any time; every
\* accepted user message is followed by exactly one assistant message, the
\* reply or the fixed error text; and isAssistantThinking returns to false
\* once the request has settled.
C28_OneRequestOneAnswer ==
    /\ [](job.inFlight \in {0, 1} /\ Alternating
          /\ (job.isAssistantThinking <=> job.inFlight = 1))
    /\ [][job'.inFlight < job.inFlight =>
            /\ job'.chatMessages = Append(job.chatMessages, job'.chatMessages[Len(job'.chatMessages)])
            /\ job'.chatMessages[Len(job'.chatMessages)].text \in ChatResponseArgs \cup {ChatErrorText}
            /\ ~job'.isAssistantThinking]_vars
    /\ (job.isAssistantThinking ~> ~job.isAssistantThinking)

\* C28: a request failed and was answered with the error text, a later one
\* was answered with the reply, and a send made meanwhile was turned down.
C28_Witness ==
    /\ Len(job.chatMessages) = 4
    /\ job.chatMessages[2].text = ChatErrorText
    /\ job.chatMessages[4].text \in ChatResponseArgs
    /\ ~job.isAssistantThinking
    /\ nOps = 3

(***************************************************************************)
(* Google sign-in (services/googleCalendar.ts)                             *)
(***************************************************************************)
\* The state of a promise requestAccess has returned.
PendingPromise == [state |-> "pending"]

\* The module after initializeGoogleCalendar (tokenClient set) or before it:
\* authCallback is null (0; otherwise the number of the call whose resolve
\* function it holds), no promise has been returned and no request is with
\* the token client.  requests holds, for each call waiting for its answer,
\* the prompt it asked for.
ReadyAuth(tokenClient) ==
    [phase |-> "auth", tokenClient |-> tokenClient, hasValidToken |-> FALSE,
     authCallback |-> 0, promises |-> <<>>, requests |-> <<>>]

\* authCallback?.(success) in the callback of the token client: the resolve
\* function stored last is called; resolving a promise again does nothing.
Answered(j, success, call) ==
    IF j.authCallback # 0 /\ j.promises[j.authCallback].state = "pending"
    THEN [j EXCEPT !.promises[j.authCallback] =
                      [state |-> "resolved", value |-> success, answerTo |-> call]]
    ELSE j

InitAuth ==
    /\ hostZone \in StoreZones
    /\ status = "idle" /\ data = NULL /\ error = NULL
    /\ leadTimeSettings = DEFAULT_LEAD_TIMES
    /\ auditLog = [len |-> 0, last |-> NULL]
    /\ nOps = 0
    /\ job \in {ReadyAuth(tokenClient) : tokenClient \in BOOLEAN}
    /\ arg = NULL
    /\ ret = NoCall

\* requestAccess(): the call is number Len(promises) + 1.
RequestAccess ==
    /\ UserOp
    /\ job.phase = "auth"
    /\ LET call == Len(job.promises) + 1
       IN  IF ~job.tokenClient
           THEN job' = [job EXCEPT !.promises = Append(@,
                           [state |-> "rejected", reason |-> "Google Calendar not initialized"])]
           ELSE job' = [job EXCEPT
                           !.promises = Append(@, PendingPromise),
                           !.authCallback = call,
                           !.requests = Append(@,
                               [call |-> call,
                                prompt |-> IF job.hasValidToken THEN "" ELSE "consent"])]
    /\ UNCHANGED <<hostZone, status, data, error, leadTimeSettings, auditLog, callVars>>

\* The token client answers one of the requests it has, with a token or with
\* an error.
TokenClientAnswers ==
    /\ job.phase = "auth"
    /\ \E k \in 1..Len(job.requests), granted \in BOOLEAN :
          job' = [Answered(job, granted, job.requests[k].call) EXCEPT
                     !.requests = SelectSeq(job.requests,
                                            LAMBDA r : r.call # job.requests[k].call),
                     !.hasValidToken = granted \/ @]
    /\ UNCHANGED <<hostZone, status, data, error, leadTimeSettings, auditLog, nOps, callVars>>

NextAuth == RequestAccess \/ TokenClientAnswers

SpecAuth == InitAuth /\ [][NextAuth]_vars

\* The calls whose request the token client has answered.
AnsweredCalls ==
    {c \in 1..Len(job.promises) :
        /\ job.promises[c].state # "rejected"
        /\ \A k \in 1..Len(job.requests) : job.requests[k].call # c}

\* C29: once the token client has answered a call of requestAccess, the
\* promise of that call is resolved, and it was resolved by the answer to
\* that call, also when a second call was started before the first one was
\* answered.
C29_EachAnswerResolvesItsCall ==
    \A c \in AnsweredCalls :
        /\ job.promises[c].state = "resolved"
        /\ job.promises[c].answerTo = c

(***************************************************************************)
(* The progress value (App.startProgress, store setProgress)               *)
(***************************************************************************)
\* The function startProgress hands to setProgress on every tick.
ProgressUpdater == [kind |-> "function"]

\* setProgress of the store, set({ progress }): the argument is stored as it
\* is, a function included.
setProgress(progress) == progress

\* The page before a file is selected: progress 0, no interval running.
ReadyProgress == [phase |-> "none", progress |-> Num(0), interval |-> FALSE, fullData |-> NULL]

InitProgress ==
    /\ hostZone \in StoreZones
    /\ status = "idle" /\ data = NULL /\ error = NULL
    /\ leadTimeSettings = DEFAULT_LEAD_TIMES
    /\ auditLog = [len |-> 0, last |-> NULL]
    /\ nOps = 0
    /\ job = ReadyProgress
    /\ arg = NULL
    /\ ret = NoCall

\* handleFileSelect up to readAsDataURL: startProgress stores 0 and starts the
\* interval.
FileSelected ==
    /\ UserOp
    /\ status = "idle"
    /\ status' = "uploading"
    /\ error' = NULL
    /\ job' = [job EXCEPT !.phase = "reading", !.progress = setProgress(Num(0)),
                          !.interval = TRUE]
    /\ UNCHANGED <<hostZone, data, leadTimeSettings, auditLog, callVars>>

\* The 300 ms interval of startProgress fires.
IntervalFires ==
    /\ job.interval
    /\ job' = [job EXCEPT !.progress = setProgress(ProgressUpdater)]
    /\ UNCHANGED <<hostZone, status, data, error, leadTimeSettings, auditLog, nOps, callVars>>

\* reader.onload up to the await of extractBidInfo.
FileRead ==
    /\ job.phase = "reading"
    /\ auditLog' = addAuditLog(auditLog, [action |-> "upload", details |-> [method |-> "file"]])
    /\ status' = "processing"
    /\ job' = [job EXCEPT !.phase = "extracting"]
    /\ UNCHANGED <<hostZone, data, error, leadTimeSettings, nOps, callVars>>

\* The catch block of reader.onload: the interval is cleared and the
\* classified error stored.
ExtractionCaught(err) ==
    /\ error' = classifyError(err)
    /\ status' = "error"
    /\ auditLog' = addAuditLog(auditLog,
          [action |-> "error", details |-> [type |-> classifyError(err).type]])
    /\ job' = [job EXCEPT !.phase = "none", !.interval = FALSE]

\* extractBidInfo resolves: the interval is cleared and progress set to 100.
ExtractionDone ==
    /\ job.phase = "extracting"
    /\ \E extracted \in ExtractedArgs :
          IF IsThrow(calculateInternalEvents(extracted, leadTimeSettings))
          THEN ExtractionCaught(RangeErrorInvalidTime)
          ELSE /\ auditLog' = addAuditLog(auditLog,
                      [action |-> "extract",
                       details |-> [hasDatesBid |-> Truthy(extracted.bidDueDate),
                                    hasDatesRfi |-> Truthy(extracted.rfiDueDate)]])
               /\ job' = [job EXCEPT !.phase = "timer", !.interval = FALSE,
                                     !.progress = setProgress(Num(100)),
                                     !.fullData = calculateInternalEvents(extracted, leadTimeSettings)]
               /\ UNCHANGED <<status, error>>
    /\ UNCHANGED <<hostZone, data, leadTimeSettings, nOps, callVars>>

\* extractBidInfo rejects.
ExtractionFailed ==
    /\ job.phase = "extracting"
    /\ \E err \in ErrorArgs : ExtractionCaught(err)
    /\ UNCHANGED <<hostZone, data, leadTimeSettings, nOps, callVars>>

\* The 400 ms timer of reader.onload.
ReviewTimerFires ==
    /\ job.phase = "timer"
    /\ data' = job.fullData
    /\ status' = "review"
    /\ job' = [job EXCEPT !.phase = "none"]
    /\ UNCHANGED <<hostZone, error, leadTimeSettings, auditLog, nOps, callVars>>

NextProgress ==
    \/ FileSelected
    \/ IntervalFires
    \/ FileRead
    \/ ExtractionDone
    \/ ExtractionFailed
    \/ ReviewTimerFires
    \/ HandleRetry
    \/ HandleManualEntry
    \/ HandleBackToIdle
    \/ HandleSubmit

SpecProgress == InitProgress /\ [][NextProgress]_vars

\* C30: in every reachable state the stored progress is a number between 0
\* and 100, at most 95 while the interval is raising it, and 100 only after
\* an extraction has succeeded.
C30_ProgressIsNumberInRange ==
    /\ job.progress.kind = "num"
    /\ job.progress.n \in 0..100
    /\ job.interval => job.progress.n <= 95
    /\ job.progress.n = 100 => (job.phase = "timer" \/ status = "review")

====
